---- MODULE Spec2Model ----
(***************************************************************************)
(* A model of the agentic retrieval pipeline                                *)
(* (backend/app/services/agentic_rag_service.py) and of the job            *)
(* aggregation and ranking engine                                          *)
(* (backend/app/services/job_recommendation_service.py).                   *)
(*                                                                         *)
(* Text is modelled as the sequence of its characters, so that lower(),    *)
(* strip() and the substring test `a in b` are computed as Python computes *)
(* them.  A response of the language model is an input, drawn from the     *)
(* texts that can be built from a few chunks.                              *)
(***************************************************************************)
EXTENDS Integers, Sequences, FiniteSets, TLC

VARIABLES
    pc,         \* the stage agentic_rag_pipeline / retrieve_answer is at
    query,      \* user_query
    storage,    \* the index paths that exist on disk
    docs,       \* number of passages held by the index at each path
    source,     \* the routing decision
    answer,     \* the local variable `answer` of agentic_rag_pipeline
    passed,     \* grade_answer's verdict
    feedback,   \* grade_answer's feedback
    llmCalls,   \* every llm.invoke made so far: role, prompt, response
    searches,   \* every similarity_search made so far: index, k
    trace,      \* the stages entered so far, in order
    returned,   \* what the entry point returned to its caller
    jpc,        \* the stage get_recommended_jobs / rank_jobs_by_relevance is at
    profile,    \* the candidate profile: skills and job_titles
    all_jobs,   \* the postings fetched, in fetch order
    unique,     \* the values of the dict `unique`, in insertion order
    ranked,     \* what rank_jobs_by_relevance returned
    rank_arg,   \* the list rank_jobs_by_relevance was called with, as passed
    cacheFile,  \* the file at jobs_cache_path
    clock,      \* datetime.utcnow(), in hours
    saved,      \* the last save_jobs_cache call: when, what, and what before it
    lastLoad,   \* the load_jobs_cache call made since the last save: its
                \* arguments and its outcome
    env,        \* RAPIDAPI_KEY, ADZUNA_APP_ID, ADZUNA_API_KEY as os.getenv gave them
    fetching,   \* the loop of get_recommended_jobs: title index, next adapter
    lastCall,   \* the adapter call made last: what it met and what it returned
    netCalls,   \* every requests.get made so far: adapter, keyword
    user_data,  \* the candidate data handed to extract_user_profile
    extracted,  \* what extract_user_profile did: returned a profile, or raised
    max_results, \* the argument max_results of get_recommended_jobs
    recommended, \* st.session_state["recommended_jobs"], set by the fetch handler
    running,    \* which of two agentic_rag_pipeline invocations holds the
                \* variables pc .. returned
    other,      \* the local variables of the invocation that is not running
    savers,     \* concurrent save_jobs_cache calls: the bytes at
                \* jobs_cache_path and where each call is
    applier     \* an apply_to_jobs call: its arguments, its locals, the
                \* driver and the application log file

ragVars == <<pc, query, storage, docs, source, answer, passed, feedback,
             llmCalls, searches, trace, returned>>

jobVars == <<jpc, profile, all_jobs, unique, ranked, rank_arg>>

cacheVars == <<cacheFile, clock, saved, lastLoad>>

fetchVars == <<env, fetching, lastCall, netCalls>>

extractVars == <<user_data, extracted>>

handlerVars == <<max_results, recommended>>

extraVars == <<running, other, savers, applier>>

sideVars == <<cacheVars, fetchVars, extractVars, handlerVars, extraVars>>

vars == <<ragVars, jobVars, sideVars>>

----------------------------------------------------------------------------
(* Bounds of the model *)

MaxRouterChunks == 3
MaxGraderChunks == 2
MaxDocs == 5
MaxJobs == 3
MaxClock == 26

----------------------------------------------------------------------------
(* Python str operations on character sequences *)

UpperToLower ==
    ("A" :> "a") @@ ("B" :> "b") @@ ("C" :> "c") @@ ("D" :> "d") @@
    ("E" :> "e") @@ ("F" :> "f") @@ ("G" :> "g") @@ ("H" :> "h") @@
    ("I" :> "i") @@ ("J" :> "j") @@ ("K" :> "k") @@ ("L" :> "l") @@
    ("M" :> "m") @@ ("N" :> "n") @@ ("O" :> "o") @@ ("P" :> "p") @@
    ("Q" :> "q") @@ ("R" :> "r") @@ ("S" :> "s") @@ ("T" :> "t") @@
    ("U" :> "u") @@ ("V" :> "v") @@ ("W" :> "w") @@ ("X" :> "x") @@
    ("Y" :> "y") @@ ("Z" :> "z")

LowerChar(c) == IF c \in DOMAIN UpperToLower THEN UpperToLower[c] ELSE c

\* s.lower()
lower(s) == [i \in 1..Len(s) |-> LowerChar(s[i])]

\* sub in s
Contains(sub, s) ==
    \E i \in 0..(Len(s) - Len(sub)) : \A j \in 1..Len(sub) : s[i + j] = sub[j]

Whitespace == {" ", "\n"}

\* s.strip()
strip(s) ==
    LET keep == {i \in 1..Len(s) : s[i] \notin Whitespace}
    IN  IF keep = {} THEN <<>>
        ELSE LET lo == CHOOSE i \in keep : \A k \in keep : i <= k
                 hi == CHOOSE i \in keep : \A k \in keep : i >= k
             IN  SubSeq(s, lo, hi)

RECURSIVE Flatten(_)
Flatten(chunks) ==
    IF chunks = <<>> THEN <<>> ELSE Head(chunks) \o Flatten(Tail(chunks))

\* every text made of at most n of the chunks
TextsUpTo(chunks, n) ==
    {Flatten(cs) : cs \in UNION {[1..k -> chunks] : k \in 0..n}}

----------------------------------------------------------------------------
(* route_query *)

W_project == <<"p", "r", "o", "j", "e", "c", "t">>
W_resume == <<"r", "e", "s", "u", "m", "e">>

RouterChunks ==
    { W_project,
      <<"P", "r", "o", "j", "e", "c", "t">>,
      W_resume,
      <<"R", "E", "S", "U", "M", "E">>,
      <<"b", "o", "t", "h">>,
      <<"p", "r", "o">>,
      <<"j", "e", "c", "t", "s">>,
      <<" ">> }

AllRouterTexts == TextsUpTo(RouterChunks, MaxRouterChunks)

\* the router responses the whole-pipeline specification draws from
RouterSamples ==
    { W_resume,
      <<"P", "r", "o", "j", "e", "c", "t">>,
      <<"b", "o", "t", "h">>,
      W_resume \o <<" ">> \o W_project }

\* route_decision without .lower()
route_decision_case_sensitive(content) ==
    LET ans == strip(content)
    IN  IF Contains(W_project, ans) /\ Contains(W_resume, ans) THEN "both"
        ELSE IF Contains(W_project, ans) THEN "project"
        ELSE "resume"

\* lines 39-45: the decision taken from the response's content
route_decision(content) ==
    LET ans == lower(strip(content))
    IN  IF Contains(W_project, ans) /\ Contains(W_resume, ans) THEN "both"
        ELSE IF Contains(W_project, ans) THEN "project"
        ELSE "resume"

----------------------------------------------------------------------------
(* grade_answer: the grader's response is a sequence of lexical tokens *)

LB == "{"
RB == "}"
COMMA == ","
K_grade == "\"grade\":"
K_feedback == "\"feedback\":"
K_note == "\"note\":"
S_pass == "\"pass\""
S_fail == "\"fail\""
S_text == "\"too vague\""
PROSE == "Here is my evaluation"

KeyToks == {K_grade, K_feedback, K_note}
StringToks == {S_pass, S_fail, S_text}

KeyName(k) ==
    CASE k = K_grade -> "grade" [] k = K_feedback -> "feedback" [] OTHER -> "note"

\* the Python value of a JSON string token
StringValue(t) ==
    CASE t = S_pass -> "pass" [] t = S_fail -> "fail" [] OTHER -> "too vague"

Absent == "<absent>"
ObjectValue == "<object>"
EmptyObj == [k \in {"grade", "feedback", "note"} |-> Absent]
ParseFail == [ok |-> FALSE, val |-> Absent, obj |-> EmptyObj, next |-> 0]

GraderChunks ==
    { <<LB, K_grade, S_pass, RB>>,
      <<LB, K_grade, S_fail, COMMA, K_feedback, S_text, RB>>,
      <<LB, K_grade, S_pass, COMMA, K_feedback, S_text, RB>>,
      <<LB, K_feedback, S_text, RB>>,
      <<LB, K_grade, S_pass, COMMA, K_note, LB, RB, RB>>,
      <<PROSE>>,
      <<LB>>,
      <<RB>> }

AllGraderTexts == TextsUpTo(GraderChunks, MaxGraderChunks)

\* json.loads on a token sequence: a value is a string or an object whose
\* members are key-value pairs; a repeated key keeps its last value
RECURSIVE ParseValue(_, _), ParseMembers(_, _, _)
ParseValue(t, i) ==
    IF i > Len(t) THEN ParseFail
    ELSE IF t[i] \in StringToks
         THEN [ok |-> TRUE, val |-> StringValue(t[i]), obj |-> EmptyObj, next |-> i + 1]
    ELSE IF t[i] = LB
         THEN IF i + 1 <= Len(t) /\ t[i + 1] = RB
              THEN [ok |-> TRUE, val |-> ObjectValue, obj |-> EmptyObj, next |-> i + 2]
              ELSE ParseMembers(t, i + 1, EmptyObj)
    ELSE ParseFail

ParseMembers(t, i, acc) ==
    IF i > Len(t) \/ t[i] \notin KeyToks THEN ParseFail
    ELSE LET v == ParseValue(t, i + 1)
         IN  IF ~v.ok \/ v.next > Len(t) THEN ParseFail
             ELSE LET acc2 == [acc EXCEPT ![KeyName(t[i])] = v.val]
                  IN  IF t[v.next] = COMMA THEN ParseMembers(t, v.next + 1, acc2)
                      ELSE IF t[v.next] = RB
                           THEN [ok |-> TRUE, val |-> ObjectValue, obj |-> acc2,
                                 next |-> v.next + 1]
                      ELSE ParseFail

json_loads(t) ==
    LET r == ParseValue(t, 1)
    IN  IF r.ok /\ r.next = Len(t) + 1 THEN [ok |-> TRUE, obj |-> r.obj]
        ELSE [ok |-> FALSE, obj |-> EmptyObj]

\* re.search(r'\{[\s\S]*\}', text): from the first "{" to the last "}"
re_search(text) ==
    LET opens == {i \in 1..Len(text) : text[i] = LB}
        closes == {i \in 1..Len(text) : text[i] = RB}
    IN  IF opens = {} THEN [found |-> FALSE, group |-> <<>>]
        ELSE LET lo == CHOOSE i \in opens : \A k \in opens : i <= k
                 after == {i \in closes : i > lo}
             IN  IF after = {} THEN [found |-> FALSE, group |-> <<>>]
                 ELSE LET hi == CHOOSE i \in after : \A k \in after : i >= k
                      IN  [found |-> TRUE, group |-> SubSeq(text, lo, hi)]

\* dict.get(key, default)
dict_get(obj, key, default) == IF obj[key] = Absent THEN default ELSE obj[key]

CouldNotParse == "Could not parse grader response."
InvalidOutput == "Invalid grader output"

\* grade_verdict with one message for both failures
grade_verdict_one_message(text) ==
    LET match == re_search(text)
        result == json_loads(match.group)
    IN  IF match.found /\ result.ok
        THEN <<dict_get(result.obj, "grade", "fail") = "pass",
               dict_get(result.obj, "feedback", "")>>
        ELSE <<FALSE, InvalidOutput>>

\* lines 116-124: the verdict taken from the response's text
grade_verdict(text) ==
    LET match == re_search(text)
    IN  IF match.found
        THEN LET result == json_loads(match.group)
             IN  IF result.ok
                 THEN <<dict_get(result.obj, "grade", "fail") = "pass",
                        dict_get(result.obj, "feedback", "")>>
                 ELSE <<FALSE, InvalidOutput>>
        ELSE <<FALSE, CouldNotParse>>

----------------------------------------------------------------------------
(* retrieve_answer *)

ResumePath == "data/embeddings/resume/resume_index"
ProjectPath == "data/embeddings/projects/projects_index"
IndexPaths == {ResumePath, ProjectPath}

SearchK == 4

NoEmbeddings == "No embeddings found for the selected source."

Sources == {"resume", "project", "both"}
Queries == {"What are my skills?", "Describe my projects"}
LLMTexts == {"answer A", "answer B"}

NoPrompt == [query |-> Absent, context |-> <<>>, answer |-> Absent, feedback |-> Absent]

\* LoadedDbs with the project index loaded first
LoadedDbs_project_first(src, stor) ==
    (IF src \in {"project", "both"} /\ ProjectPath \in stor THEN <<ProjectPath>> ELSE <<>>)
    \o (IF src \in {"resume", "both"} /\ ResumePath \in stor THEN <<ResumePath>> ELSE <<>>)

\* lines 59-63: the indices loaded for a routing decision
LoadedDbs(src, stor) ==
    (IF src \in {"resume", "both"} /\ ResumePath \in stor THEN <<ResumePath>> ELSE <<>>)
    \o (IF src \in {"project", "both"} /\ ProjectPath \in stor THEN <<ProjectPath>> ELSE <<>>)

\* db.similarity_search(user_query, k): the k nearest passages of the index,
\* nearest first; passage <<db, i>> is the i-th nearest of index db
similarity_search(db, n, k) == [i \in 1..(IF n < k THEN n ELSE k) |-> <<db, i>>]

\* lines 69-75: the passages put into the prompt
RetrievedDocs(dbs, d) ==
    IF Len(dbs) > 1
    THEN Flatten([i \in 1..Len(dbs) |-> similarity_search(dbs[i], d[dbs[i]], SearchK)])
    ELSE similarity_search(dbs[1], d[dbs[1]], SearchK)

\* lines 69-75: the searches made
SearchesMade(dbs) == [i \in 1..Len(dbs) |-> [index |-> dbs[i], k |-> SearchK]]

\* retrieve_answer generating also when no index was loaded
retrieve_answer_always_generates ==
    /\ pc = "RETRIEVE"
    /\ LET dbs == LoadedDbs(source, storage)
       IN  /\ searches' = searches \o SearchesMade(dbs)
           /\ \E content \in LLMTexts :
                 /\ llmCalls' = Append(llmCalls,
                       [role |-> "generate",
                        prompt |-> [NoPrompt EXCEPT !.query = query],
                        resp |-> content])
                 /\ answer' = IF dbs = <<>> THEN NoEmbeddings ELSE content
    /\ pc' = "GRADE"
    /\ trace' = Append(trace, "RETRIEVE")
    /\ UNCHANGED <<query, storage, docs, source, passed, feedback, returned>>
    /\ UNCHANGED <<jobVars, sideVars>>

retrieve_answer ==
    /\ pc = "RETRIEVE"
    /\ LET dbs == LoadedDbs(source, storage)
       IN  IF dbs = <<>>
           THEN /\ answer' = NoEmbeddings
                /\ UNCHANGED <<llmCalls, searches>>
           ELSE /\ searches' = searches \o SearchesMade(dbs)
                /\ \E content \in LLMTexts :
                      /\ llmCalls' = Append(llmCalls,
                            [role |-> "generate",
                             prompt |-> [NoPrompt EXCEPT !.context = RetrievedDocs(dbs, docs),
                                                         !.query = query],
                             resp |-> content])
                      /\ answer' = content
    /\ pc' = "GRADE"
    /\ trace' = Append(trace, "RETRIEVE")
    /\ UNCHANGED <<query, storage, docs, source, passed, feedback, returned>>
    /\ UNCHANGED <<jobVars, sideVars>>

----------------------------------------------------------------------------
(* Job postings and candidate profiles.  title, company and description are *)
(* character sequences; the other fields are never inspected by the code.   *)

J1 ==
    [title |-> <<"M", "L", " ", "E", "n", "g", "i", "n", "e", "e", "r">>,
     company |-> <<"A", "c", "m", "e">>,
     location |-> "Remote",
     description |-> <<"p", "y", "t", "h", "o", "n", " ", "a", "n", "d", " ",
                       "d", "o", "c", "k", "e", "r">>,
     apply_link |-> "https://acme.example/1",
     posted_date |-> "2025-01-01",
     source |-> "JSearch"]

J2 ==
    [title |-> <<"m", "l", " ", "e", "n", "g", "i", "n", "e", "e", "r">>,
     company |-> <<"A", "C", "M", "E">>,
     location |-> "India",
     description |-> <<"r", "e", "m", "o", "t", "e", " ", "r", "o", "l", "e">>,
     apply_link |-> "https://acme.example/2",
     posted_date |-> "2025-01-02",
     source |-> "RemoteOK"]

J3 ==
    [title |-> <<"B", "a", "c", "k", "e", "n", "d", " ", "D", "e", "v", "e",
                 "l", "o", "p", "e", "r">>,
     company |-> <<"G", "l", "o", "b", "e", "x">>,
     location |-> "Remote",
     description |-> <<"p", "y", "t", "h", "o", "n", " ", "a", "n", "d", " ",
                       "d", "o", "c", "k", "e", "r">>,
     apply_link |-> "https://globex.example/3",
     posted_date |-> "2025-01-03",
     source |-> "Adzuna"]

J4 ==
    [title |-> <<"D", "a", "t", "a", " ", "A", "n", "a", "l", "y", "s", "t">>,
     company |-> <<"G", "l", "o", "b", "e", "x">>,
     location |-> "India",
     description |-> <<"h", "t", "m", "l", " ", "e", "m", "a", "i", "l">>,
     apply_link |-> "",
     posted_date |-> "2025-01-04",
     source |-> "JSearch"]

J5 ==
    [title |-> <<"B", "a", "c", "k", "e", "n", "d", " ", "D", "e", "v", "e",
                 "l", "o", "p", "e", "r">>,
     company |-> <<"I", "n", "i", "t", "e", "c", "h">>,
     location |-> "Remote",
     description |-> <<"p", "y", "t", "h", "o", "n", " ", "a", "n", "d", " ",
                       "d", "o", "c", "k", "e", "r">>,
     apply_link |-> "https://initech.example/5",
     posted_date |-> "2025-01-05",
     source |-> "RemoteOK"]

J6 ==
    [title |-> <<"C", "l", "e", "r", "k">>,
     company |-> <<"I", "n", "i", "t", "e", "c", "h">>,
     location |-> "India",
     description |-> <<>>,
     apply_link |-> "https://initech.example/6",
     posted_date |-> "",
     source |-> "Adzuna"]

J7 ==
    [title |-> <<"B", "a", "c", "k", "e", "n", "d", " ", "P", "y", "t", "h",
                 "o", "n", " ", "D", "e", "v", "e", "l", "o", "p", "e", "r">>,
     company |-> <<"H", "o", "o", "l", "i">>,
     location |-> "Remote",
     description |-> <<"u", "s", "i", "n", "g", " ", "D", "o", "c", "k", "e",
                       "r", " ", "a", "n", "d", " ", "K", "u", "b", "e", "r",
                       "n", "e", "t", "e", "s">>,
     apply_link |-> "https://hooli.example/7",
     posted_date |-> "2025-01-07",
     source |-> "JSearch"]

JobPool == {J1, J2, J3, J4, J5, J6, J7}

\* every sequence of at most n postings
JobListsUpTo(n) == UNION {[1..k -> JobPool] : k \in 0..n}

ProfileA ==
    [skills |-> {<<"p", "y", "t", "h", "o", "n">>,
                 <<"d", "o", "c", "k", "e", "r">>},
     job_titles |-> <<<<"M", "L", " ", "E", "n", "g", "i", "n", "e", "e", "r">>,
                      <<"D", "a", "t", "a", " ", "S", "c", "i", "e", "n",
                        "t", "i", "s", "t">>>>]

ProfileB ==
    [skills |-> {},
     job_titles |-> <<<<"S", "o", "f", "t", "w", "a", "r", "e", " ", "E",
                        "n", "g", "i", "n", "e", "e", "r">>,
                      <<"A", "I", " ", "E", "n", "g", "i", "n", "e", "e", "r">>>>]

\* the titles of two keyword groups, in one of the orders list(set) can give
ProfileC ==
    [skills |-> {<<"p", "y", "t", "h", "o", "n">>},
     job_titles |-> <<<<"A", "I", " ", "E", "n", "g", "i", "n", "e", "e", "r">>,
                      <<"N", "L", "P", " ", "E", "n", "g", "i", "n", "e", "e", "r">>,
                      <<"S", "o", "f", "t", "w", "a", "r", "e", " ", "E", "n", "g"
                        , "i", "n", "e", "e", "r">>,
                      <<"B", "a", "c", "k", "e", "n", "d", " ", "E", "n", "g", "i"
                        , "n", "e", "e", "r">>>>]

Profiles == {ProfileA, ProfileB, ProfileC}

----------------------------------------------------------------------------
(* Deduplication: get_recommended_jobs, lines 270-275 *)

\* line 273
DedupeKey(job) == <<lower(job.title), lower(job.company)>>

\* the loop of lines 272-275; `uniq` holds the dict's values in insertion order
RECURSIVE dedupe_loop(_, _)
dedupe_loop(rest, uniq) ==
    IF rest = <<>> THEN uniq
    ELSE LET job == Head(rest)
         IN  IF \E k \in 1..Len(uniq) : DedupeKey(uniq[k]) = DedupeKey(job)
             THEN dedupe_loop(Tail(rest), uniq)
             ELSE dedupe_loop(Tail(rest), Append(uniq, job))

\* the loop storing every posting under its key: the last one seen wins
RECURSIVE dedupe_loop_last_wins(_, _)
dedupe_loop_last_wins(rest, uniq) ==
    IF rest = <<>> THEN uniq
    ELSE LET job == Head(rest)
         IN  IF \E k \in 1..Len(uniq) : DedupeKey(uniq[k]) = DedupeKey(job)
             THEN dedupe_loop_last_wins(Tail(rest),
                      [k \in 1..Len(uniq) |->
                          IF DedupeKey(uniq[k]) = DedupeKey(job) THEN job ELSE uniq[k]])
             ELSE dedupe_loop_last_wins(Tail(rest), Append(uniq, job))

dedupe_last_wins(jobs) == dedupe_loop_last_wins(jobs, <<>>)

\* the loop putting each new posting in front of the ones kept so far
RECURSIVE dedupe_loop_prepend(_, _)
dedupe_loop_prepend(rest, uniq) ==
    IF rest = <<>> THEN uniq
    ELSE LET job == Head(rest)
         IN  IF \E k \in 1..Len(uniq) : DedupeKey(uniq[k]) = DedupeKey(job)
             THEN dedupe_loop_prepend(Tail(rest), uniq)
             ELSE dedupe_loop_prepend(Tail(rest), <<job>> \o uniq)

dedupe_prepend(jobs) == dedupe_loop_prepend(jobs, <<>>)

\* lines 271-277: list(unique.values())
dedupe(jobs) == dedupe_loop(jobs, <<>>)

----------------------------------------------------------------------------
(* rank_jobs_by_relevance *)

\* lines 206-214
synonyms ==
    << [key |-> <<"p", "y", "t", "h", "o", "n">>,
        words |-> <<<<"p", "y", "t", "h", "o", "n">>,
                   <<"p", "a", "n", "d", "a", "s">>,
                   <<"n", "u", "m", "p", "y">>,
                   <<"f", "a", "s", "t", "a", "p", "i">>,
                   <<"f", "l", "a", "s", "k">>>>],
       [key |-> <<"d", "o", "c", "k", "e", "r">>,
        words |-> <<<<"d", "o", "c", "k", "e", "r">>,
                   <<"c", "o", "n", "t", "a", "i", "n", "e", "r">>,
                   <<"k", "u", "b", "e", "r", "n", "e", "t", "e", "s">>,
                   <<"k", "8", "s">>>>],
       [key |-> <<"m", "a", "c", "h", "i", "n", "e", " ", "l", "e", "a", "r",
                  "n", "i", "n", "g">>,
        words |-> <<<<"m", "l">>,
                   <<"m", "a", "c", "h", "i", "n", "e", " ", "l", "e", "a",
                     "r", "n", "i", "n", "g">>,
                   <<"d", "e", "e", "p", " ", "l", "e", "a", "r", "n", "i",
                     "n", "g">>,
                   <<"n", "e", "u", "r", "a", "l">>>>],
       [key |-> <<"a", "i">>,
        words |-> <<<<"a", "i">>,
                   <<"l", "l", "m">>,
                   <<"r", "a", "g">>,
                   <<"g", "p", "t">>,
                   <<"b", "e", "r", "t">>>>],
       [key |-> <<"n", "l", "p">>,
        words |-> <<<<"n", "l", "p">>,
                   <<"t", "r", "a", "n", "s", "f", "o", "r", "m", "e", "r">>,
                   <<"t", "o", "k", "e", "n">>>>],
       [key |-> <<"c", "l", "o", "u", "d">>,
        words |-> <<<<"a", "w", "s">>,
                   <<"a", "z", "u", "r", "e">>,
                   <<"g", "c", "p">>,
                   <<"c", "l", "o", "u", "d">>>>],
       [key |-> <<"d", "a", "t", "a", "b", "a", "s", "e">>,
        words |-> <<<<"p", "o", "s", "t", "g", "r", "e", "s">>,
                   <<"m", "y", "s", "q", "l">>,
                   <<"m", "o", "n", "g", "o", "d", "b">>,
                   <<"s", "q", "l">>>>] >>

ExactPoints == 10
FuzzyPoints == 5
TitlePoints == 15

\* line 218
SearchText(job) == lower(job.title \o <<" ">> \o job.description)

\* line 223
exact_matches(job, prof) == {s \in prof.skills : Contains(s, SearchText(job))}

\* fuzzy_matches recording the word found instead of the concept key
fuzzy_matches_raw_words(job) ==
    {LET ws == synonyms[c].words
         hit == CHOOSE w \in 1..Len(ws) :
                   /\ Contains(ws[w], SearchText(job))
                   /\ \A v \in 1..(w - 1) : ~Contains(ws[v], SearchText(job))
     IN  ws[hit] :
        c \in {c \in 1..Len(synonyms) :
                 \E w \in 1..Len(synonyms[c].words) :
                     Contains(synonyms[c].words[w], SearchText(job))}}

\* lines 229-235: the concepts one of whose words is in the text
fuzzy_matches(job) ==
    {synonyms[c].key : c \in {c \in 1..Len(synonyms) :
        \E w \in 1..Len(synonyms[c].words) :
            Contains(synonyms[c].words[w], SearchText(job))}}

\* lines 240-242: the profile's titles found in the posting's title
title_hits(job, prof) ==
    Cardinality({t \in 1..Len(prof.job_titles) :
        Contains(lower(prof.job_titles[t]), lower(job.title))})

\* scored without the `break`: 5 points for every synonym found
scored_per_synonym(job, prof) ==
    [title |-> job.title,
     company |-> job.company,
     location |-> job.location,
     description |-> job.description,
     apply_link |-> job.apply_link,
     posted_date |-> job.posted_date,
     source |-> job.source,
     matched_skills |-> exact_matches(job, prof) \cup fuzzy_matches(job),
     relevance_score |->
         Cardinality(exact_matches(job, prof)) * ExactPoints
         + Cardinality({<<c, w>> \in (1..Len(synonyms)) \X (1..5) :
               /\ w <= Len(synonyms[c].words)
               /\ Contains(synonyms[c].words[w], SearchText(job))}) * FuzzyPoints
         + title_hits(job, prof) * TitlePoints]

\* lines 217-248: the posting with its score and matched skills set
scored(job, prof) ==
    [title |-> job.title,
     company |-> job.company,
     location |-> job.location,
     description |-> job.description,
     apply_link |-> job.apply_link,
     posted_date |-> job.posted_date,
     source |-> job.source,
     matched_skills |-> exact_matches(job, prof) \cup fuzzy_matches(job),
     relevance_score |-> Cardinality(exact_matches(job, prof)) * ExactPoints
                         + Cardinality(fuzzy_matches(job)) * FuzzyPoints
                         + title_hits(job, prof) * TitlePoints]

\* the posting as it was before scoring
unscored(job) ==
    [title |-> job.title,
     company |-> job.company,
     location |-> job.location,
     description |-> job.description,
     apply_link |-> job.apply_link,
     posted_date |-> job.posted_date,
     source |-> job.source]

\* place x behind every element whose score is at least x's
RECURSIVE insert_desc(_, _)
insert_desc(x, s) ==
    IF s = <<>> THEN <<x>>
    ELSE IF Head(s).relevance_score >= x.relevance_score
         THEN <<Head(s)>> \o insert_desc(x, Tail(s))
         ELSE <<x>> \o s

RECURSIVE sort_from(_, _)
sort_from(rest, acc) ==
    IF rest = <<>> THEN acc ELSE sort_from(Tail(rest), insert_desc(Head(rest), acc))

Reverse(s) == [i \in 1..Len(s) |-> s[Len(s) + 1 - i]]

\* place x in front of every element whose score is at least x's
RECURSIVE insert_asc(_, _)
insert_asc(x, s) ==
    IF s = <<>> THEN <<x>>
    ELSE IF Head(s).relevance_score <= x.relevance_score
         THEN <<Head(s)>> \o insert_asc(x, Tail(s))
         ELSE <<x>> \o s

RECURSIVE sort_asc_from(_, _)
sort_asc_from(rest, acc) ==
    IF rest = <<>> THEN acc ELSE sort_asc_from(Tail(rest), insert_asc(Head(rest), acc))

\* an ascending stable sort, reversed: equal scores come out in reverse order
sorted_asc_then_reversed(jobs) == Reverse(sort_asc_from(jobs, <<>>))

\* the sort leaving out the postings that scored nothing
sorted_drop_zero(jobs) ==
    sort_from(SelectSeq(jobs, LAMBDA j : j.relevance_score > 0), <<>>)

\* line 253: sorted(jobs, key=relevance_score, reverse=True), a stable sort
sorted_by_score_desc(jobs) == sort_from(jobs, <<>>)

\* lines 216-248: every posting of the list scored in place
score_all(jobs, prof) == [i \in 1..Len(jobs) |-> scored(jobs[i], prof)]

----------------------------------------------------------------------------
(* The three job-source adapters *)

\* Python's None where a string is expected
PyNone == <<"None">>

\* a Python int in a place where a string is expected
PyInt == <<"123">>

\* isinstance(x, str)
IsStr(x) == x \notin {PyNone, PyInt}

\* os.getenv of a variable that is not set
Unset == "<unset>"

\* `not X` of lines 102 and 166: None and "" are false
Truthy(x) == x \notin {Unset, ""}

NoEnv == [RAPIDAPI_KEY |-> Unset, ADZUNA_APP_ID |-> Unset, ADZUNA_API_KEY |-> Unset]

\* lines 11-13
Envs ==
    [RAPIDAPI_KEY : {Unset, "k1"}, ADZUNA_APP_ID : {Unset, "k2"},
     ADZUNA_API_KEY : {"", "k3"}]

\* what one request met.  kind: "transport_error" (requests.get raises),
\* "not_json" (r.json() raises) or "json"; shape of the decoded value:
\* "other_type" (not the dict or list the adapter indexes), "no_list" (the
\* key read is absent), "entries" (the list of entries).  Of an entry,
\* `fields` are its members and `nulls` the keys whose value is null.
TransportError == [kind |-> "transport_error", shape |-> "", entries |-> <<>>]
NotJson == [kind |-> "not_json", shape |-> "", entries |-> <<>>]
Payload(shape, entries) == [kind |-> "json", shape |-> shape, entries |-> entries]

\* job.get(key, default)
entry_get(entry, key, default) ==
    IF key \in entry.nulls THEN PyNone
    ELSE IF key \in DOMAIN entry.fields THEN entry.fields[key]
    ELSE default

\* a response the adapter's parsing goes through without an exception and
\* without a null where text is expected
WellFormed(resp) ==
    /\ resp.kind = "json"
    /\ resp.shape \in {"no_list", "entries"}
    /\ \A i \in 1..Len(resp.entries) : resp.entries[i].nulls = {}

JSearchEntry ==
    [fields |-> [job_title |-> <<"M", "L", " ", "E", "n", "g", "i", "n", "e",
                                 "e", "r">>,
                 employer_name |-> <<"A", "c", "m", "e">>,
                 job_city |-> "",
                 job_country |-> "IN",
                 job_description |-> <<"p", "y", "t", "h", "o", "n", " ",
                                       "a", "n", "d", " ", "s", "q", "l">>,
                 job_apply_link |-> "https://jsearch.example/1",
                 job_posted_at_datetime_utc |-> "2025-02-01"],
     nulls |-> {}]

JSearchEntryNullTitle ==
    [fields |-> [employer_name |-> <<"A", "c", "m", "e">>,
                 job_city |-> "Pune",
                 job_description |-> <<"p", "y", "t", "h", "o", "n", " ",
                                       "a", "n", "d", " ", "s", "q", "l">>,
                 job_apply_link |-> "https://jsearch.example/2",
                 job_posted_at_datetime_utc |-> "2025-02-02"],
     nulls |-> {"job_title"}]

JSearchResponses ==
    {TransportError, NotJson, Payload("other_type", <<>>),
     Payload("no_list", <<>>), Payload("entries", <<JSearchEntry>>),
     Payload("entries", <<JSearchEntryNullTitle>>)}

\* lines 119-127
jsearch_posting(job) ==
    [title |-> entry_get(job, "job_title", <<>>),
     company |-> entry_get(job, "employer_name", <<>>),
     location |-> IF entry_get(job, "job_city", "") # ""
                  THEN entry_get(job, "job_city", "")
                  ELSE entry_get(job, "job_country", ""),
     description |-> entry_get(job, "job_description", <<>>),
     apply_link |-> entry_get(job, "job_apply_link", ""),
     posted_date |-> entry_get(job, "job_posted_at_datetime_utc", ""),
     source |-> "JSearch"]

Skipped(printed) ==
    [outcome |-> "returned", jobs |-> <<>>, network |-> FALSE, printed |-> printed]
Caught ==
    [outcome |-> "returned", jobs |-> <<>>, network |-> TRUE, printed |-> "error"]
Fetched(jobs) ==
    [outcome |-> "returned", jobs |-> jobs, network |-> TRUE, printed |-> ""]

\* lines 101-132
jsearch_result(environ, resp) ==
    IF ~Truthy(environ.RAPIDAPI_KEY) THEN Skipped("notice")
    ELSE IF resp.kind # "json" \/ resp.shape = "other_type" THEN Caught
    ELSE Fetched([i \in 1..Len(resp.entries) |-> jsearch_posting(resp.entries[i])])

RemoteOKLegal == [fields |-> [legal |-> "terms"], nulls |-> {}]

RemoteOKEntry ==
    [fields |-> [position |-> <<"S", "e", "n", "i", "o", "r", " ", "M", "L",
                                " ", "E", "n", "g", "i", "n", "e", "e", "r">>,
                 company |-> <<"I", "n", "i", "t", "e", "c", "h">>,
                 description |-> <<"d", "o", "c", "k", "e", "r">>,
                 url |-> "https://remoteok.example/1",
                 date |-> "2025-02-03"],
     nulls |-> {}]

RemoteOKEntryNullPosition ==
    [fields |-> [company |-> <<"I", "n", "i", "t", "e", "c", "h">>,
                 url |-> "https://remoteok.example/2"],
     nulls |-> {"position"}]

RemoteOKResponses ==
    {TransportError, NotJson, Payload("other_type", <<>>),
     Payload("entries", <<RemoteOKLegal, RemoteOKEntry>>),
     Payload("entries", <<RemoteOKLegal, RemoteOKEntry, RemoteOKEntryNullPosition>>)}

\* lines 148-156
remoteok_posting(job) ==
    [title |-> entry_get(job, "position", <<>>),
     company |-> entry_get(job, "company", <<>>),
     location |-> entry_get(job, "location", "Remote"),
     description |-> entry_get(job, "description", <<>>),
     apply_link |-> entry_get(job, "url", ""),
     posted_date |-> entry_get(job, "date", ""),
     source |-> "RemoteOK"]

\* lines 137-160; jobs_data[1:] leaves out the first entry
remoteok_result(keywords, resp) ==
    IF resp.kind # "json" \/ resp.shape # "entries" THEN Caught
    ELSE LET rest == SubSeq(resp.entries, 2, Len(resp.entries))
             hits == SelectSeq(rest, LAMBDA job :
                        Contains(lower(keywords),
                                 lower(entry_get(job, "position", <<>>))))
         IN  IF \E i \in 1..Len(rest) : ~IsStr(entry_get(rest[i], "position", <<>>))
             THEN Caught
             ELSE Fetched([i \in 1..Len(hits) |-> remoteok_posting(hits[i])])

AdzunaEntry ==
    [fields |-> [title |-> <<"D", "a", "t", "a", " ", "S", "c", "i", "e",
                             "n", "t", "i", "s", "t">>,
                 company |-> [display_name |-> <<"G", "l", "o", "b", "e",
                                                 "x">>],
                 location |-> [display_name |-> "Pune"],
                 description |-> <<"s", "q", "l">>,
                 redirect_url |-> "https://adzuna.example/1",
                 created |-> "2025-02-04"],
     nulls |-> {}]

AdzunaEntryNullCompany ==
    [fields |-> [title |-> <<"D", "a", "t", "a", " ", "S", "c", "i", "e",
                             "n", "t", "i", "s", "t">>,
                 redirect_url |-> "https://adzuna.example/2"],
     nulls |-> {"company"}]

AdzunaResponses ==
    {TransportError, NotJson, Payload("other_type", <<>>),
     Payload("no_list", <<>>), Payload("entries", <<AdzunaEntry>>),
     Payload("entries", <<AdzunaEntry, AdzunaEntryNullCompany>>)}

\* job.get(key, {}).get("display_name", "") of lines 186-187
display_name(job, key, default) ==
    IF key \in DOMAIN job.fields /\ "display_name" \in DOMAIN job.fields[key]
    THEN job.fields[key].display_name
    ELSE default

\* lines 184-192
adzuna_posting(job) ==
    [title |-> entry_get(job, "title", <<>>),
     company |-> display_name(job, "company", <<>>),
     location |-> display_name(job, "location", ""),
     description |-> entry_get(job, "description", <<>>),
     apply_link |-> entry_get(job, "redirect_url", ""),
     posted_date |-> entry_get(job, "created", ""),
     source |-> "Adzuna"]

\* the test of line 166 looking at the application id only
adzuna_enabled_by_app_id(environ) == Truthy(environ.ADZUNA_APP_ID)

\* line 166
adzuna_enabled(environ) ==
    Truthy(environ.ADZUNA_APP_ID) /\ Truthy(environ.ADZUNA_API_KEY)

\* lines 165-196; None.get(...) of a null company or location is caught
adzuna_result(environ, resp) ==
    IF ~adzuna_enabled(environ) THEN Skipped("")
    ELSE IF resp.kind # "json" \/ resp.shape = "other_type" THEN Caught
    ELSE IF \E i \in 1..Len(resp.entries) :
               resp.entries[i].nulls \cap {"company", "location"} # {}
         THEN Caught
    ELSE Fetched([i \in 1..Len(resp.entries) |-> adzuna_posting(resp.entries[i])])

NoCall ==
    [adapter |-> "none", keyword |-> <<>>, well_formed |-> TRUE,
     outcome |-> "none", jobs |-> <<>>, network |-> FALSE, printed |-> "",
     before |-> <<>>]

\* line 264: job_titles[:3]
TopTitles == 3

SearchTitles == SubSeq(profile.job_titles, 1,
                       IF Len(profile.job_titles) < TopTitles
                       THEN Len(profile.job_titles) ELSE TopTitles)

----------------------------------------------------------------------------
(* extract_user_profile *)

\* the texts of lines 85-92 and of the candidate data used below
KW_ml == <<"m", "l">>
KW_machine_learning == <<"m", "a", "c", "h", "i", "n", "e", " ", "l", "e",
                         "a", "r", "n", "i", "n", "g">>
KW_data == <<"d", "a", "t", "a">>
KW_ai == <<"a", "i">>
KW_nlp == <<"n", "l", "p">>
KW_rag == <<"r", "a", "g">>
KW_llm == <<"l", "l", "m">>
KW_langchain == <<"l", "a", "n", "g", "c", "h", "a", "i", "n">>
KW_full_stack == <<"f", "u", "l", "l", " ", "s", "t", "a", "c", "k">>
KW_backend == <<"b", "a", "c", "k", "e", "n", "d">>
KW_web == <<"w", "e", "b">>
T_ML_Engineer == <<"M", "L", " ", "E", "n", "g", "i", "n", "e", "e", "r">>
T_Data_Scientist == <<"D", "a", "t", "a", " ", "S", "c", "i", "e", "n",
                      "t", "i", "s", "t">>
T_AI_Engineer == <<"A", "I", " ", "E", "n", "g", "i", "n", "e", "e", "r">>
T_NLP_Engineer == <<"N", "L", "P", " ", "E", "n", "g", "i", "n", "e", "e",
                    "r">>
T_Software_Engineer == <<"S", "o", "f", "t", "w", "a", "r", "e", " ", "E",
                         "n", "g", "i", "n", "e", "e", "r">>
T_Backend_Engineer == <<"B", "a", "c", "k", "e", "n", "d", " ", "E", "n",
                        "g", "i", "n", "e", "e", "r">>
CS_Chess == <<"C", "h", "e", "s", "s", " ", "E", "n", "g", "i", "n", "e">>
CS_Cpp == <<"C", "+", "+">>
CS_RagBot == <<"R", "e", "s", "u", "m", "e", " ", "R", "A", "G", " ", "B",
               "o", "t">>
CS_LangChain == <<"L", "a", "n", "g", "C", "h", "a", "i", "n">>
CS_FAISS == <<"F", "A", "I", "S", "S">>
CS_HtmlEmail == <<"H", "T", "M", "L", " ", "E", "m", "a", "i", "l", " ",
                  "T", "o", "o", "l">>
CS_WebShop == <<"W", "e", "b", " ", "S", "h", "o", "p">>
CS_Flask == <<"F", "l", "a", "s", "k">>
CS_DataBoard == <<"S", "a", "l", "e", "s", " ", "D", "a", "t", "a", " ",
                  "B", "o", "a", "r", "d">>
CS_Rust == <<"R", "u", "s", "t">>
CS_Python == <<"P", "y", "t", "h", "o", "n">>
CS_SQL == <<"S", "Q", "L">>
CS_Docker == <<"D", "o", "c", "k", "e", "r">>
CS_DBMS == <<"D", "B", "M", "S">>
CS_Bullet1 == <<"B", "u", "i", "l", "t", " ", "R", "E", "S", "T", " ", "A",
                "P", "I", "s", " ", "w", "i", "t", "h", " ", "F", "l", "a",
                "s", "k">>
CS_Bullet2 == <<"R", "a", "n", " ", "S", "Q", "L", " ", "j", "o", "b", "s">>

\* user_data is the dict of the keys present; {} is the dict without keys
NoUserData == [k \in {} |-> <<>>]

\* d.get(key, default)
py_get(d, key, default) == IF key \in DOMAIN d THEN d[key] ELSE default

\* lines 31-37
EmptyProfile ==
    [skills |-> {}, experience_years |-> 0, education_level |-> "",
     preferred_locations |-> <<"Remote", "India">>, job_titles |-> {}]

NotExtracted == [called |-> FALSE, outcome |-> "none", profile |-> EmptyProfile]

\* str.split(): the words between runs of whitespace
RECURSIVE split_from(_, _, _)
split_from(s, word, acc) ==
    IF s = <<>> THEN (IF word = <<>> THEN acc ELSE Append(acc, word))
    ELSE IF Head(s) \in Whitespace
         THEN split_from(Tail(s), <<>>,
                         IF word = <<>> THEN acc ELSE Append(acc, word))
         ELSE split_from(Tail(s), Append(word, Head(s)), acc)

split(s) == split_from(s, <<>>, <<>>)

\* line 57: len(word) > 3
MinWordLen == 3

\* lines 45-47
direct_skills(d) ==
    py_get(d, "languages", <<>>) \o py_get(d, "tools", <<>>)
    \o py_get(d, "coursework", <<>>)

\* lines 50-51
project_skills(d) ==
    LET ps == py_get(d, "projects", <<>>)
    IN  Flatten([i \in 1..Len(ps) |-> py_get(ps[i], "technologies", <<>>)])

\* every bullet of every experience entry, lines 54-55
bullets(d) ==
    LET xs == py_get(d, "experience", <<>>)
    IN  Flatten([i \in 1..Len(xs) |-> py_get(xs[i], "items", <<>>)])

\* bullet_words keeping the words of three characters too
bullet_words_from_three(d) ==
    LET bs == bullets(d)
    IN  Flatten([i \in 1..Len(bs) |->
                    SelectSeq(split(bs[i]), LAMBDA w : Len(w) >= MinWordLen)])

\* lines 56-58: the words of more than three characters, of string bullets
bullet_words(d) ==
    LET bs == bullets(d)
    IN  Flatten([i \in 1..Len(bs) |->
                    SelectSeq(split(bs[i]), LAMBDA w : Len(w) > MinWordLen)])

\* lines 61-62
normalized_skills(d) ==
    LET all == direct_skills(d) \o project_skills(d) \o bullet_words(d)
    IN  {lower(all[i]) : i \in {i \in 1..Len(all) : IsStr(all[i])}}

\* lines 85-90: the keywords of each group and the titles it contributes
TitleGroups ==
    << [keywords |-> {KW_ml, KW_machine_learning, KW_data},
        titles |-> {T_ML_Engineer, T_Data_Scientist}],
       [keywords |-> {KW_ai, KW_nlp, KW_rag, KW_llm, KW_langchain},
        titles |-> {T_AI_Engineer, T_NLP_Engineer}],
       [keywords |-> {KW_full_stack, KW_backend, KW_web},
        titles |-> {T_Software_Engineer, T_Backend_Engineer}] >>

\* lines 91-92
FallbackTitles ==
    {T_Software_Engineer, T_AI_Engineer}

\* the test of lines 85-89 without lowercasing the project title
group_hit_case_sensitive(proj, g) ==
    \E x \in TitleGroups[g].keywords : Contains(x, py_get(proj, "title", <<>>))

\* lines 83-89: any(x in t for x in [...]) with t the lowercased title
group_hit(proj, g) ==
    \E x \in TitleGroups[g].keywords :
        Contains(x, lower(py_get(proj, "title", <<>>)))

\* lines 80-92
inferred_titles(d) ==
    LET ps == py_get(d, "projects", <<>>)
        hit == {g \in DOMAIN TitleGroups : \E i \in 1..Len(ps) : group_hit(ps[i], g)}
    IN  IF hit = {} THEN FallbackTitles
        ELSE UNION {TitleGroups[g].titles : g \in hit}

\* lines 72-74
education_level(d) ==
    LET education == py_get(d, "education", <<>>)
    IN  IF education = <<>> THEN ""
        ELSE py_get(education[1], "degree", "B.Tech")

\* lines 30-96; item.split() of a bullet that is not a string raises
extract_outcome(d) ==
    IF \E i \in 1..Len(bullets(d)) : ~IsStr(bullets(d)[i])
    THEN [outcome |-> "AttributeError", profile |-> EmptyProfile]
    ELSE [outcome |-> "returned",
          profile |-> [skills |-> normalized_skills(d),
                       experience_years |-> Len(py_get(d, "experience", <<>>)),
                       education_level |-> education_level(d),
                       preferred_locations |-> <<"Remote", "India">>,
                       job_titles |-> inferred_titles(d)]]

P_Chess == [title |-> CS_Chess, technologies |-> <<CS_Cpp>>]
P_RagBot == [title |-> CS_RagBot, technologies |-> <<CS_LangChain, CS_FAISS>>]
P_HtmlEmail == [title |-> CS_HtmlEmail]
P_WebShop == [title |-> CS_WebShop, technologies |-> <<CS_Flask>>]
P_DataBoard == [title |-> CS_DataBoard, technologies |-> <<>>]
P_Untitled == [technologies |-> <<CS_Rust, PyInt>>]

SkillInputs ==
    {NoUserData,
     [languages |-> <<>>],
     [languages |-> <<CS_Python, CS_SQL>>, tools |-> <<CS_Docker>>],
     [languages |-> <<CS_Python, PyInt>>, coursework |-> <<PyNone, CS_DBMS>>]}

ProjectInputs ==
    {NoUserData,
     [projects |-> <<>>],
     [projects |-> <<P_Chess>>],
     [projects |-> <<P_Untitled>>],
     [projects |-> <<P_RagBot>>],
     [projects |-> <<P_HtmlEmail>>],
     [projects |-> <<P_WebShop, P_RagBot>>],
     [projects |-> <<P_DataBoard, P_Chess, P_WebShop, P_RagBot>>]}

ExperienceInputs ==
    {NoUserData,
     [experience |-> <<>>],
     [experience |-> <<[company |-> "Acme"]>>],
     [experience |-> <<[items |-> <<CS_Bullet1>>], [items |-> <<>>]>>],
     [experience |-> <<[items |-> <<CS_Bullet2>>]>>],
     [experience |-> <<[items |-> <<CS_Bullet1, PyInt>>]>>]}

EducationInputs ==
    {NoUserData,
     [education |-> <<>>],
     [education |-> <<[degree |-> "M.Tech"]>>],
     [education |-> <<[school |-> "IIT"]>>]}

\* the candidate data: any combination of the four groups of fields
UserDatas ==
    {s @@ p @@ x @@ e :
        s \in SkillInputs, p \in ProjectInputs, x \in ExperienceInputs,
        e \in EducationInputs}

----------------------------------------------------------------------------
(* The jobs cache file and what is known of the calls made on it *)

\* line 298: os.path.exists(self.jobs_cache_path) is false
NoFile == [kind |-> "missing"]

NotSaved == [called |-> FALSE, at |-> 0, jobs |-> <<>>, before |-> <<>>]

NotLoaded ==
    [called |-> FALSE, at |-> 0, max_age_hours |-> 0, outcome |-> "none",
     jobs |-> <<>>]

CacheIdle ==
    /\ cacheFile = NoFile
    /\ clock = 0
    /\ saved = NotSaved
    /\ lastLoad = NotLoaded

FetchIdle ==
    /\ env = NoEnv
    /\ fetching = [title |-> 1, adapter |-> "jsearch"]
    /\ lastCall = NoCall
    /\ netCalls = <<>>

ExtractIdle ==
    /\ user_data = NoUserData
    /\ extracted = NotExtracted

\* line 258: max_results: int = 15
DefaultMaxResults == 15

HandlerIdle ==
    /\ max_results = DefaultMaxResults
    /\ recommended = <<>>

\* the local variables of an agentic_rag_pipeline invocation not yet made
IdleLocals ==
    [pc |-> "IDLE", query |-> Absent, source |-> Absent, answer |-> Absent,
     passed |-> FALSE, feedback |-> Absent, llmCalls |-> <<>>,
     searches |-> <<>>, trace |-> <<>>, returned |-> "<not returned>"]

\* no save_jobs_cache call is under way
IdleSavers == [disk |-> <<>>, calls |-> <<>>]

\* apply_to_jobs has not been called
IdleApplier == [pc |-> "IDLE"]

ExtraIdle ==
    /\ running = 1
    /\ other = IdleLocals
    /\ savers = IdleSavers
    /\ applier = IdleApplier

SideIdle == CacheIdle /\ FetchIdle /\ ExtractIdle /\ HandlerIdle /\ ExtraIdle

----------------------------------------------------------------------------
(* get_recommended_jobs, from the postings fetched to the ranked list *)

\* lines 270-275
Dedupe ==
    /\ jpc = "FETCHED"
    /\ IF \A i \in 1..Len(all_jobs) :
             IsStr(all_jobs[i].title) /\ IsStr(all_jobs[i].company)
       THEN /\ unique' = dedupe(all_jobs)
            /\ jpc' = "DEDUPED"
       ELSE \* line 273: None has no lower(); the AttributeError leaves
            \* get_recommended_jobs
            /\ unique' = unique
            /\ jpc' = "RAISED"
    /\ UNCHANGED <<profile, all_jobs, ranked, rank_arg>>
    /\ UNCHANGED <<ragVars, sideVars>>

\* line 277 and rank_jobs_by_relevance: the postings are scored in place and
\* a sorted copy of the list is returned
Rank ==
    /\ jpc = "DEDUPED"
    /\ rank_arg' = unique
    /\ unique' = score_all(unique, profile)
    /\ ranked' = sorted_by_score_desc(score_all(unique, profile))
    /\ jpc' = "RANKED"
    /\ UNCHANGED <<profile, all_jobs>>
    /\ UNCHANGED <<ragVars, sideVars>>

JobsIdle ==
    /\ jpc = "IDLE"
    /\ profile = ProfileB
    /\ all_jobs = <<>>
    /\ unique = <<>>
    /\ ranked = <<>>
    /\ rank_arg = <<>>

RagIdle ==
    /\ pc = "IDLE"
    /\ query = Absent
    /\ storage = {}
    /\ docs = [p \in IndexPaths |-> 1]
    /\ source = Absent
    /\ answer = Absent
    /\ passed = FALSE
    /\ feedback = Absent
    /\ llmCalls = <<>>
    /\ searches = <<>>
    /\ trace = <<>>
    /\ returned = "<not returned>"

\* the postings fetched are any list the adapters can deliver
InitJobs ==
    /\ RagIdle
    /\ SideIdle
    /\ jpc = "FETCHED"
    /\ profile \in Profiles
    /\ all_jobs \in JobListsUpTo(MaxJobs)
    /\ unique = <<>>
    /\ ranked = <<>>
    /\ rank_arg = <<>>

NextJobs ==
    \/ Dedupe
    \/ Rank

SpecJobs == InitJobs /\ [][NextJobs]_vars

\* rank_jobs_by_relevance called on its own, on any list of postings
InitRank ==
    /\ RagIdle
    /\ SideIdle
    /\ jpc = "DEDUPED"
    /\ profile \in Profiles
    /\ all_jobs = <<>>
    /\ unique \in JobListsUpTo(MaxJobs)
    /\ ranked = <<>>
    /\ rank_arg = <<>>

SpecRank == InitRank /\ [][Rank]_vars

----------------------------------------------------------------------------
(* save_jobs_cache and load_jobs_cache *)

HoursPerDay == 24

\* line 291: datetime.isoformat(), date and time of day; time counted in hours
isoformat(t) == [date |-> t \div HoursPerDay, hour |-> t % HoursPerDay]

\* line 302: datetime.fromisoformat()
fromisoformat(text) == text.date * HoursPerDay + text.hour

\* the keys of a posting, in the order the dict received them
FieldOrder ==
    <<"title", "company", "location", "description", "apply_link",
      "posted_date", "source", "matched_skills", "relevance_score">>

\* line 295, json.dump of a dict: the members of the object, key and value
dump_object(job) ==
    LET ks == SelectSeq(FieldOrder, LAMBDA k : k \in DOMAIN job)
    IN  [i \in 1..Len(ks) |-> <<ks[i], job[ks[i]]>>]

\* line 300, json.load of an object: the dict of its members, the last
\* member of a key winning
load_object(members) ==
    [k \in {members[i][1] : i \in DOMAIN members} |->
        members[CHOOSE i \in DOMAIN members :
                   /\ members[i][1] = k
                   /\ \A j \in DOMAIN members : members[j][1] = k => j <= i][2]]

\* lines 289-295: the document save_jobs_cache writes
cache_document(now, jobs) ==
    [kind |-> "json",
     members |-> [timestamp |-> isoformat(now),
                  jobs |-> [i \in 1..Len(jobs) |-> dump_object(jobs[i])]]]

\* files json.load cannot decode: no bytes, a document cut short, other text
EmptyFile == [kind |-> "empty"]
TruncatedFile == [kind |-> "truncated"]
NotJsonFile == [kind |-> "not_json"]

\* documents that decode but lack one of the two fields
NoTimestampDoc == [kind |-> "json", members |-> [jobs |-> <<>>]]
NoJobsDoc == [kind |-> "json", members |-> [timestamp |-> isoformat(0)]]

\* what can be at jobs_cache_path when the process starts
InitialFiles ==
    {NoFile, EmptyFile, TruncatedFile, NotJsonFile, NoTimestampDoc, NoJobsDoc,
     cache_document(0, <<>>)}

Returned(jobs) == [outcome |-> "returned", jobs |-> jobs]
Raised(error) == [outcome |-> error, jobs |-> <<>>]

\* the staleness test with the boundary instant counted as stale
stale_from_boundary(now, ts, max_age_hours) == now - ts >= max_age_hours

\* line 303: datetime.utcnow() - ts > timedelta(hours=max_age_hours)
stale(now, ts, max_age_hours) == now - ts > max_age_hours

\* lines 297-305
load_outcome(file, now, max_age_hours) ==
    IF file.kind = "missing" THEN Returned(<<>>)
    ELSE IF file.kind # "json" THEN Raised("JSONDecodeError")
    ELSE LET data == file.members
         IN  IF "timestamp" \notin DOMAIN data THEN Raised("KeyError")
             ELSE IF stale(now, fromisoformat(data.timestamp), max_age_hours)
                  THEN Returned(<<>>)
             ELSE IF "jobs" \notin DOMAIN data THEN Raised("KeyError")
             ELSE Returned([i \in 1..Len(data.jobs) |->
                               load_object(data.jobs[i])])

\* the lists handed to save_jobs_cache: ranked[:max_results] of line 280
SaveLists ==
    {sorted_by_score_desc(score_all(l, ProfileA)) :
        l \in {<<>>, <<J7>>, <<J7, J1>>}}

\* the values of max_age_hours; 24 is the default of line 297
MaxAges == {1, 24}

\* time passes
Tick ==
    /\ clock < MaxClock
    /\ clock' = clock + 1
    /\ UNCHANGED <<cacheFile, saved, lastLoad>>
    /\ UNCHANGED <<ragVars, jobVars, fetchVars, extractVars, handlerVars, extraVars>>

\* a save that adds its postings to those of the document already there
save_jobs_cache_append ==
    \E jobs \in SaveLists :
        /\ cacheFile' =
              IF cacheFile.kind = "json" /\ "jobs" \in DOMAIN cacheFile.members
              THEN [kind |-> "json",
                    members |->
                       [timestamp |-> isoformat(clock),
                        jobs |-> cacheFile.members.jobs
                                 \o cache_document(clock, jobs).members.jobs]]
              ELSE cache_document(clock, jobs)
        /\ saved' = [called |-> TRUE, at |-> clock, jobs |-> jobs,
                     before |-> saved.jobs]
        /\ lastLoad' = NotLoaded
        /\ UNCHANGED clock
        /\ UNCHANGED <<ragVars, jobVars, fetchVars, extractVars, handlerVars, extraVars>>

\* lines 288-295: open(path, "w") replaces whatever the file held
save_jobs_cache ==
    \E jobs \in SaveLists :
        /\ cacheFile' = cache_document(clock, jobs)
        /\ saved' = [called |-> TRUE, at |-> clock, jobs |-> jobs,
                     before |-> saved.jobs]
        /\ lastLoad' = NotLoaded
        /\ UNCHANGED clock
        /\ UNCHANGED <<ragVars, jobVars, fetchVars, extractVars, handlerVars, extraVars>>

\* lines 297-305
load_jobs_cache ==
    \E max_age_hours \in MaxAges :
        LET out == load_outcome(cacheFile, clock, max_age_hours)
        IN  /\ lastLoad' = [called |-> TRUE, at |-> clock,
                          max_age_hours |-> max_age_hours,
                          outcome |-> out.outcome, jobs |-> out.jobs]
            /\ UNCHANGED <<cacheFile, clock, saved>>
            /\ UNCHANGED <<ragVars, jobVars, fetchVars, extractVars, handlerVars, extraVars>>

InitCache ==
    /\ RagIdle
    /\ JobsIdle
    /\ FetchIdle
    /\ ExtractIdle
    /\ HandlerIdle
    /\ ExtraIdle
    /\ cacheFile \in InitialFiles
    /\ clock = 0
    /\ saved = NotSaved
    /\ lastLoad = NotLoaded

NextCache ==
    \/ Tick
    \/ save_jobs_cache
    \/ load_jobs_cache

SpecCache == InitCache /\ [][NextCache]_vars

----------------------------------------------------------------------------
(* The fetch loop of get_recommended_jobs, lines 262-268 *)

\* what an adapter call leaves behind
Called(adapter, keyword, resp, res) ==
    /\ all_jobs' = all_jobs \o res.jobs
    /\ lastCall' = [adapter |-> adapter, keyword |-> keyword,
                    well_formed |-> WellFormed(resp), outcome |-> res.outcome,
                    jobs |-> res.jobs, network |-> res.network,
                    printed |-> res.printed, before |-> all_jobs]
    /\ netCalls' = IF res.network
                   THEN Append(netCalls, [adapter |-> adapter, keyword |-> keyword])
                   ELSE netCalls

\* line 265
search_jobs_jsearch ==
    /\ jpc = "FETCH"
    /\ fetching.adapter = "jsearch"
    /\ \E resp \in JSearchResponses :
          Called("jsearch", SearchTitles[fetching.title], resp,
                 jsearch_result(env, resp))
    /\ fetching' = [fetching EXCEPT !.adapter = "remoteok"]
    /\ UNCHANGED <<jpc, profile, unique, ranked, rank_arg, env>>
    /\ UNCHANGED <<max_results, recommended>>
    /\ UNCHANGED <<ragVars, cacheVars, extractVars, extraVars>>

\* line 266
search_jobs_remoteok ==
    /\ jpc = "FETCH"
    /\ fetching.adapter = "remoteok"
    /\ \E resp \in RemoteOKResponses :
          Called("remoteok", SearchTitles[fetching.title], resp,
                 remoteok_result(SearchTitles[fetching.title], resp))
    /\ fetching' = [fetching EXCEPT !.adapter = "adzuna"]
    /\ UNCHANGED <<jpc, profile, unique, ranked, rank_arg, env>>
    /\ UNCHANGED <<max_results, recommended>>
    /\ UNCHANGED <<ragVars, cacheVars, extractVars, extraVars>>

\* line 267; after the last title the loop is left
search_jobs_adzuna ==
    /\ jpc = "FETCH"
    /\ fetching.adapter = "adzuna"
    /\ \E resp \in AdzunaResponses :
          Called("adzuna", SearchTitles[fetching.title], resp,
                 adzuna_result(env, resp))
    /\ IF fetching.title < Len(SearchTitles)
       THEN /\ fetching' = [title |-> fetching.title + 1, adapter |-> "jsearch"]
            /\ jpc' = jpc
       ELSE /\ fetching' = fetching
            /\ jpc' = "FETCHED"
    /\ UNCHANGED <<profile, unique, ranked, rank_arg, env>>
    /\ UNCHANGED <<max_results, recommended>>
    /\ UNCHANGED <<ragVars, cacheVars, extractVars, extraVars>>

InitFetch ==
    /\ RagIdle
    /\ CacheIdle
    /\ ExtractIdle
    /\ HandlerIdle
    /\ ExtraIdle
    /\ jpc = "FETCH"
    /\ profile \in Profiles
    /\ all_jobs = <<>>
    /\ unique = <<>>
    /\ ranked = <<>>
    /\ rank_arg = <<>>
    /\ env \in Envs
    /\ fetching = [title |-> 1, adapter |-> "jsearch"]
    /\ lastCall = NoCall
    /\ netCalls = <<>>

NextFetch ==
    \/ search_jobs_jsearch
    \/ search_jobs_remoteok
    \/ search_jobs_adzuna
    \/ Dedupe

SpecFetch == InitFetch /\ [][NextFetch]_vars

----------------------------------------------------------------------------
(* The fetch handler of streamlit_app.py, lines 553-565, and the rest of     *)
(* get_recommended_jobs, lines 277-283                                       *)

\* streamlit_app.py line 556: load_jobs_cache(max_age_hours=24)
HandlerMaxAge == 24

\* jobs[:n]
Take(jobs, n) == SubSeq(jobs, 1, IF Len(jobs) < n THEN Len(jobs) ELSE n)

\* the handler calling get_recommended_jobs whatever the cache holds
handler_always_fetches ==
    /\ jpc = "CLICK"
    /\ LET out == load_outcome(cacheFile, clock, HandlerMaxAge)
       IN  /\ lastLoad' = [called |-> TRUE, at |-> clock,
                           max_age_hours |-> HandlerMaxAge,
                           outcome |-> out.outcome, jobs |-> out.jobs]
           /\ IF out.outcome # "returned"
              THEN jpc' = "ERROR" /\ recommended' = recommended
              ELSE jpc' = "FETCH" /\ recommended' = recommended
    /\ UNCHANGED <<profile, all_jobs, unique, ranked, rank_arg>>
    /\ UNCHANGED <<cacheFile, clock, saved, max_results>>
    /\ UNCHANGED <<ragVars, fetchVars, extractVars, extraVars>>

\* streamlit_app.py lines 556-561: the cache is read; a list that is not
\* empty is served, an empty one calls get_recommended_jobs, an exception
\* goes to the handler's except branch
handler_load ==
    /\ jpc = "CLICK"
    /\ LET out == load_outcome(cacheFile, clock, HandlerMaxAge)
       IN  /\ lastLoad' = [called |-> TRUE, at |-> clock,
                           max_age_hours |-> HandlerMaxAge,
                           outcome |-> out.outcome, jobs |-> out.jobs]
           /\ IF out.outcome # "returned"
              THEN jpc' = "ERROR" /\ recommended' = recommended
              ELSE IF out.jobs # <<>>
                   THEN jpc' = "SERVED" /\ recommended' = out.jobs
                   ELSE jpc' = "FETCH" /\ recommended' = recommended
    /\ UNCHANGED <<profile, all_jobs, unique, ranked, rank_arg>>
    /\ UNCHANGED <<cacheFile, clock, saved, max_results>>
    /\ UNCHANGED <<ragVars, fetchVars, extractVars, extraVars>>

\* line 280: save_jobs_cache(ranked[:max_results])
SaveRanked ==
    /\ jpc = "RANKED"
    /\ cacheFile' = cache_document(clock, Take(ranked, max_results))
    /\ saved' = [called |-> TRUE, at |-> clock,
                 jobs |-> Take(ranked, max_results), before |-> saved.jobs]
    /\ jpc' = "SAVED"
    /\ UNCHANGED <<profile, all_jobs, unique, ranked, rank_arg>>
    /\ UNCHANGED <<clock, lastLoad>>
    /\ UNCHANGED <<ragVars, fetchVars, extractVars, handlerVars, extraVars>>

\* line 281: st.write(...); the module never imports or defines `st`, so the
\* name lookup raises NameError and line 283 is not reached
DebugWrite ==
    /\ jpc = "SAVED"
    /\ jpc' = "RAISED"
    /\ UNCHANGED <<profile, all_jobs, unique, ranked, rank_arg>>
    /\ UNCHANGED <<ragVars, sideVars>>

\* the button is pressed again: a new run of the handler
Click ==
    /\ jpc \in {"SERVED", "ERROR", "RAISED"}
    /\ jpc' = "CLICK"
    /\ all_jobs' = <<>>
    /\ unique' = <<>>
    /\ ranked' = <<>>
    /\ rank_arg' = <<>>
    /\ fetching' = [title |-> 1, adapter |-> "jsearch"]
    /\ lastCall' = NoCall
    /\ netCalls' = <<>>
    /\ UNCHANGED <<profile, env, max_results, recommended>>
    /\ UNCHANGED <<ragVars, cacheVars, extractVars, extraVars>>

\* every variable set, or none, of the credentials
HandlerEnvs ==
    {NoEnv,
     [RAPIDAPI_KEY |-> "k1", ADZUNA_APP_ID |-> "k2", ADZUNA_API_KEY |-> "k3"]}

\* the hour the button is first pressed: an entry written at hour 0 is
\* then new, exactly 24 hours old, or older
StartHours == {0, 24, 25}

\* what an earlier run left at jobs_cache_path
HandlerFiles ==
    {NoFile, EmptyFile, cache_document(0, <<>>),
     cache_document(0, sorted_by_score_desc(score_all(<<J7, J1>>, ProfileA)))}

InitHandler ==
    /\ RagIdle
    /\ ExtractIdle
    /\ ExtraIdle
    /\ jpc = "CLICK"
    /\ profile \in Profiles
    /\ all_jobs = <<>>
    /\ unique = <<>>
    /\ ranked = <<>>
    /\ rank_arg = <<>>
    /\ cacheFile \in HandlerFiles
    /\ clock \in StartHours
    /\ saved = NotSaved
    /\ lastLoad = NotLoaded
    /\ env \in HandlerEnvs
    /\ fetching = [title |-> 1, adapter |-> "jsearch"]
    /\ lastCall = NoCall
    /\ netCalls = <<>>
    /\ max_results \in {1, DefaultMaxResults}
    /\ recommended = <<>>

NextHandler ==
    \/ handler_load
    \/ search_jobs_jsearch
    \/ search_jobs_remoteok
    \/ search_jobs_adzuna
    \/ Dedupe
    \/ Rank
    \/ SaveRanked
    \/ DebugWrite
    \/ Click

SpecHandler == InitHandler /\ [][NextHandler]_vars

----------------------------------------------------------------------------
(* extract_user_profile called on any candidate data *)

\* lines 30-96; the function reads user_data and builds its own lists
extract_user_profile ==
    /\ ~extracted.called
    /\ extracted' = [called |-> TRUE,
                     outcome |-> extract_outcome(user_data).outcome,
                     profile |-> extract_outcome(user_data).profile]
    /\ UNCHANGED user_data
    /\ UNCHANGED <<ragVars, jobVars, cacheVars, fetchVars, handlerVars, extraVars>>

InitExtract ==
    /\ RagIdle
    /\ JobsIdle
    /\ CacheIdle
    /\ FetchIdle
    /\ HandlerIdle
    /\ ExtraIdle
    /\ user_data \in UserDatas
    /\ extracted = NotExtracted

SpecExtract == InitExtract /\ [][extract_user_profile]_vars

----------------------------------------------------------------------------
(* agentic_rag_pipeline *)

\* line 132 and route_query
Route(responses) ==
    /\ pc = "ROUTE"
    /\ \E content \in responses :
          /\ llmCalls' = Append(llmCalls,
                [role |-> "route", prompt |-> [NoPrompt EXCEPT !.query = query],
                 resp |-> content])
          /\ source' = route_decision(content)
    /\ pc' = "RETRIEVE"
    /\ trace' = Append(trace, "ROUTE")
    /\ UNCHANGED <<query, storage, docs, answer, passed, feedback, searches, returned>>
    /\ UNCHANGED <<jobVars, sideVars>>

\* line 134 and grade_answer
Grade(responses) ==
    /\ pc = "GRADE"
    /\ \E text \in responses :
          /\ llmCalls' = Append(llmCalls,
                [role |-> "grade",
                 prompt |-> [NoPrompt EXCEPT !.query = query, !.answer = answer],
                 resp |-> text])
          /\ passed' = grade_verdict(text)[1]
          /\ feedback' = grade_verdict(text)[2]
    /\ pc' = IF passed' THEN "RETURN" ELSE "CORRECT"
    /\ trace' = Append(trace, "GRADE")
    /\ UNCHANGED <<query, storage, docs, source, answer, searches, returned>>
    /\ UNCHANGED <<jobVars, sideVars>>

\* Correct leaving `answer` as it was
Correct_keeps_answer ==
    /\ pc = "CORRECT"
    /\ \E content \in LLMTexts :
          llmCalls' = Append(llmCalls,
                [role |-> "correct", prompt |-> [NoPrompt EXCEPT !.feedback = feedback],
                 resp |-> content])
    /\ pc' = "RETURN"
    /\ trace' = Append(trace, "CORRECT")
    /\ UNCHANGED <<query, storage, docs, source, answer, passed, feedback, searches,
                   returned>>
    /\ UNCHANGED <<jobVars, sideVars>>

\* Correct followed by a second grading pass
Correct_then_regrade ==
    /\ pc = "CORRECT"
    /\ \E content \in LLMTexts :
          /\ llmCalls' = Append(llmCalls,
                [role |-> "correct", prompt |-> [NoPrompt EXCEPT !.feedback = feedback],
                 resp |-> content])
          /\ answer' = content
    /\ pc' = "GRADE"
    /\ trace' = Append(trace, "CORRECT")
    /\ UNCHANGED <<query, storage, docs, source, passed, feedback, searches, returned>>
    /\ UNCHANGED <<jobVars, sideVars>>

\* lines 136-141
Correct ==
    /\ pc = "CORRECT"
    /\ \E content \in LLMTexts :
          /\ llmCalls' = Append(llmCalls,
                [role |-> "correct", prompt |-> [NoPrompt EXCEPT !.feedback = feedback],
                 resp |-> content])
          /\ answer' = content
    /\ pc' = "RETURN"
    /\ trace' = Append(trace, "CORRECT")
    /\ UNCHANGED <<query, storage, docs, source, passed, feedback, searches, returned>>
    /\ UNCHANGED <<jobVars, sideVars>>

\* line 143
Return ==
    /\ pc = "RETURN"
    /\ returned' = answer
    /\ pc' = "DONE"
    /\ UNCHANGED <<query, storage, docs, source, answer, passed, feedback,
                   llmCalls, searches, trace>>
    /\ UNCHANGED <<jobVars, sideVars>>

NotReturned == "<not returned>"

Init ==
    /\ pc = "ROUTE"
    /\ query \in Queries
    /\ storage \in SUBSET IndexPaths
    /\ docs = [p \in IndexPaths |-> IF p = ResumePath THEN 1 ELSE MaxDocs]
    /\ source = Absent
    /\ answer = Absent
    /\ passed = FALSE
    /\ feedback = Absent
    /\ llmCalls = <<>>
    /\ searches = <<>>
    /\ trace = <<>>
    /\ returned = NotReturned
    /\ JobsIdle
    /\ SideIdle

Next ==
    \/ Route(RouterSamples)
    \/ retrieve_answer
    \/ Grade(AllGraderTexts)
    \/ Correct
    \/ Return

Spec == Init /\ [][Next]_vars

\* route_query called on its own, on every response text
SpecRoute == Init /\ [][Route(AllRouterTexts)]_vars

\* retrieve_answer called on its own, with any source and any index sizes
InitRetrieve ==
    /\ pc = "RETRIEVE"
    /\ query \in Queries
    /\ storage \in SUBSET IndexPaths
    /\ docs \in [IndexPaths -> 1..MaxDocs]
    /\ source \in Sources
    /\ answer = Absent
    /\ passed = FALSE
    /\ feedback = Absent
    /\ llmCalls = <<>>
    /\ searches = <<>>
    /\ trace = <<>>
    /\ returned = NotReturned
    /\ JobsIdle
    /\ SideIdle

SpecRetrieve == InitRetrieve /\ [][retrieve_answer]_vars

----------------------------------------------------------------------------
(* What the claims read from a state *)

CallsOf(r) == SelectSeq(llmCalls, LAMBDA c : c.role = r)
Graded == Len(CallsOf("grade")) > 0
GraderText == CallsOf("grade")[1].resp
Stages == <<"ROUTE", "RETRIEVE", "GRADE", "CORRECT">>
IsPrefix(s, t) == Len(s) <= Len(t) /\ SubSeq(t, 1, Len(s)) = s
\* what retrieve_answer gave back: the generation's content or the sentinel
RetrievedAnswer ==
    IF Len(CallsOf("generate")) > 0 THEN CallsOf("generate")[1].resp ELSE NoEmbeddings

\* the index paths the routing decision implies
Wanted ==
    {p \in IndexPaths : \/ (p = ResumePath /\ source \in {"resume", "both"})
                        \/ (p = ProjectPath /\ source \in {"project", "both"})}

----------------------------------------------------------------------------
(* C1: whenever grading returns fail, exactly one corrective generation call *)
(* is issued, its prompt carries the grader's feedback, no second grading    *)
(* call is made, and the pipeline returns the content of the corrective call *)
C1_OneCorrectiveCallOnFail ==
    /\ Len(CallsOf("grade")) <= 1
    /\ Len(CallsOf("correct")) <= 1
    /\ (pc = "DONE" /\ ~passed) =>
          /\ Len(CallsOf("grade")) = 1
          /\ Len(CallsOf("correct")) = 1
          /\ llmCalls[Len(llmCalls)].role = "correct"
          /\ CallsOf("correct")[1].prompt.feedback = feedback
          /\ feedback = grade_verdict(GraderText)[2]
          /\ returned = CallsOf("correct")[1].resp

\* a failed grading whose corrective call returned another text than the
\* generation did
C1_Witness ==
    /\ pc = "DONE"
    /\ ~passed
    /\ Len(CallsOf("generate")) = 1
    /\ CallsOf("generate")[1].resp = "answer A"
    /\ CallsOf("correct")[1].prompt.feedback = "too vague"
    /\ returned = "answer B"

(* C2: every invocation runs ROUTE, RETRIEVE, GRADE once each, in that order, *)
(* and then ends: on pass with the RETRIEVE answer and no corrective call, on *)
(* fail through one CORRECT step; no stage is entered twice                   *)
C2_StageOrder ==
    /\ IsPrefix(trace, Stages)
    /\ pc = "DONE" =>
          /\ ~ENABLED Next
          /\ passed => /\ trace = <<"ROUTE", "RETRIEVE", "GRADE">>
                       /\ Len(CallsOf("correct")) = 0
                       /\ returned = RetrievedAnswer
          /\ ~passed => trace = Stages

\* a passed grading: the pipeline is done after three stages
C2_Witness ==
    /\ pc = "DONE"
    /\ passed
    /\ Len(trace) = 3
    /\ returned = "answer A"

(* C3: when no index exists for the routed source, the pipeline delivers the *)
(* 'no embeddings found' sentinel to its caller                              *)
C3_SentinelDelivered ==
    (pc = "DONE" /\ LoadedDbs(source, storage) = <<>>) => returned = NoEmbeddings

(* C4: when none of the indices the routing decision implies exists,         *)
(* retrieve_answer returns the sentinel and makes no search and no           *)
(* generation call                                                           *)
C4_NoIndexNoSearchNoGeneration ==
    (pc = "GRADE" /\ Wanted \cap storage = {})
    => /\ answer = NoEmbeddings
       /\ searches = <<>>
       /\ llmCalls = <<>>

\* "both" was asked for and neither index exists
C4_Witness ==
    /\ pc = "GRADE"
    /\ source = "both"
    /\ storage = {}
    /\ answer = NoEmbeddings

(* C5 as stated: a grader text with no parseable brace-delimited block gives *)
(* (false, "Could not parse grader response.")                               *)
C5_Original ==
    (Graded /\ ~(re_search(GraderText).found
                 /\ json_loads(re_search(GraderText).group).ok))
    => (~passed /\ feedback = CouldNotParse)

HasBraceBlock(text) ==
    \E i, j \in 1..Len(text) : i < j /\ text[i] = LB /\ text[j] = RB

(* C5 amended: a grader text with no brace-delimited block gives (false,     *)
(* "Could not parse grader response."), one whose block from the first "{"   *)
(* to the last "}" is not valid JSON gives (false, "Invalid grader output"), *)
(* and in both cases the pipeline issues exactly one corrective call, which  *)
(* carries that feedback                                                     *)
C5_MalformedIsFail ==
    Graded =>
       /\ ~HasBraceBlock(GraderText) => (~passed /\ feedback = CouldNotParse)
       /\ (HasBraceBlock(GraderText) /\ ~json_loads(re_search(GraderText).group).ok)
             => (~passed /\ feedback = InvalidOutput)
       /\ (pc = "DONE" /\ feedback \in {CouldNotParse, InvalidOutput}) =>
             /\ Len(CallsOf("correct")) = 1
             /\ CallsOf("correct")[1].prompt.feedback = feedback

\* prose with no braces at all was graded, and the pipeline is done
C5_Witness ==
    /\ pc = "DONE"
    /\ GraderText = <<PROSE>>
    /\ feedback = CouldNotParse
    /\ Len(CallsOf("correct")) = 1

(* C6: route_query gives "both" when the lowercased response contains        *)
(* "project" and "resume", "project" when it contains "project" only, and    *)
(* "resume" otherwise                                                        *)
C6_RouteDecision ==
    pc = "RETRIEVE" =>
       LET text == lower(llmCalls[1].resp)
           hasProject == Contains(W_project, text)
           hasResume == Contains(W_resume, text)
       IN  /\ source \in {"resume", "project", "both"}
           /\ source = "both" <=> (hasProject /\ hasResume)
           /\ source = "project" <=> (hasProject /\ ~hasResume)
           /\ source = "resume" <=> ~hasProject

\* the router answered "Project RESUME": both markers, neither in lower case
C6_Witness ==
    /\ pc = "RETRIEVE"
    /\ llmCalls[1].resp = <<"P", "r", "o", "j", "e", "c", "t", " ",
                            "R", "E", "S", "U", "M", "E">>
    /\ source = "both"

TopK(p) == [i \in 1..(IF docs[p] < 4 THEN docs[p] ELSE 4) |-> <<p, i>>]

(* C7: with "both" routed and both indices present each index is searched    *)
(* with k=4 and the resume passages followed by the project passages form    *)
(* the context of a single generation call; a selected index that is absent  *)
(* is skipped; with one index loaded only that index is searched with k=4    *)
C7_SearchAndConcatenate ==
    pc = "GRADE" =>
       LET loaded == Wanted \cap storage
       IN  /\ \A i \in 1..Len(searches) : searches[i].index \in loaded /\ searches[i].k = 4
           /\ Len(searches) = Cardinality(loaded)
           /\ loaded = IndexPaths =>
                 /\ searches = <<[index |-> ResumePath, k |-> 4],
                                 [index |-> ProjectPath, k |-> 4]>>
                 /\ Len(llmCalls) = 1
                 /\ llmCalls[1].role = "generate"
                 /\ llmCalls[1].prompt.context = TopK(ResumePath) \o TopK(ProjectPath)
           /\ \A p \in IndexPaths : loaded = {p} =>
                 /\ searches = <<[index |-> p, k |-> 4]>>
                 /\ Len(llmCalls) = 1
                 /\ llmCalls[1].prompt.context = TopK(p)

\* both indices present, the resume index holding more than four passages
C7_Witness ==
    /\ pc = "GRADE"
    /\ source = "both"
    /\ storage = IndexPaths
    /\ docs[ResumePath] > 4
    /\ Len(searches) = 2
    /\ Len(llmCalls[1].prompt.context) = 4 + docs[ProjectPath]

SameKey(a, b) == lower(a.title) = lower(b.title) /\ lower(a.company) = lower(b.company)

(* C8: deduplication keeps exactly one posting per key (lowercased title,    *)
(* lowercased company), namely the first one of the input with that key,     *)
(* whole: later postings with the key are dropped, no field is merged        *)
C8_FirstSeenWins ==
    jpc = "DEDUPED" =>
       /\ \A i, j \in 1..Len(unique) : SameKey(unique[i], unique[j]) => i = j
       /\ \A i \in 1..Len(all_jobs) : \E k \in 1..Len(unique) :
             SameKey(all_jobs[i], unique[k])
       /\ \A k \in 1..Len(unique) : \E i \in 1..Len(all_jobs) :
             /\ unique[k] = all_jobs[i]
             /\ \A h \in 1..(i - 1) : ~SameKey(all_jobs[h], all_jobs[i])

\* "ml engineer"/"ACME" came first and "ML Engineer"/"Acme", with another
\* description and apply link, later: the first is the one kept
C8_Witness ==
    /\ jpc = "DEDUPED"
    /\ Len(all_jobs) = 3
    /\ all_jobs[1] = J2
    /\ all_jobs[3] = J1
    /\ Len(unique) = 2
    /\ unique[1] = J2

(* C9: deduplication is idempotent: dedupe(dedupe(X)) = dedupe(X)            *)
C9_DedupeIdempotent ==
    jpc = "DEDUPED" => dedupe(unique) = unique

\* a list from which a duplicate was dropped and two postings were kept
C9_Witness ==
    /\ jpc = "DEDUPED"
    /\ Len(unique) >= 2
    /\ Len(all_jobs) > Len(unique)
    /\ unique[1] # all_jobs[1] \/ unique[2] # all_jobs[2]

(* C10: rank_jobs_by_relevance returns the postings sorted by descending     *)
(* relevance_score, postings of equal score in their input order             *)
C10_SortedDescendingStable ==
    jpc = "RANKED" =>
       /\ \A i, j \in 1..Len(ranked) :
             i < j => ranked[i].relevance_score >= ranked[j].relevance_score
       /\ \A n \in 1..Len(unique) :
             LET sc == unique[n].relevance_score
             IN  SelectSeq(ranked, LAMBDA x : x.relevance_score = sc)
                 = SelectSeq(unique, LAMBDA x : x.relevance_score = sc)

\* two different postings of equal score behind a better one that came last
C10_Witness ==
    /\ jpc = "RANKED"
    /\ Len(ranked) = 3
    /\ ranked[1] = unique[3]
    /\ ranked[2] = unique[1]
    /\ ranked[3] = unique[2]
    /\ ranked[2] # ranked[3]
    /\ ranked[2].relevance_score = ranked[3].relevance_score
    /\ ranked[1].relevance_score > ranked[2].relevance_score

\* how often posting x occurs in the list s
Count(x, s) == Cardinality({i \in 1..Len(s) : s[i] = x})

BaseFields ==
    {"title", "company", "location", "description", "apply_link", "posted_date",
     "source"}

(* C11: the output of rank_jobs_by_relevance is a permutation of its input:  *)
(* same length, no posting dropped or added, and on each posting only        *)
(* matched_skills and relevance_score are set, the other fields unchanged    *)
C11_RankIsPermutation ==
    jpc = "RANKED" =>
       /\ Len(ranked) = Len(rank_arg)
       /\ \A i \in 1..Len(ranked) :
             /\ DOMAIN ranked[i] = BaseFields \cup {"matched_skills", "relevance_score"}
             /\ \E n \in 1..Len(rank_arg) :
                   \A f \in BaseFields : ranked[i][f] = rank_arg[n][f]
       /\ \A n \in 1..Len(rank_arg) :
             Count(rank_arg[n], rank_arg)
             = Cardinality({i \in 1..Len(ranked) :
                   \A f \in BaseFields : ranked[i][f] = rank_arg[n][f]})

\* three postings, one of them scoring nothing, come out reordered
C11_Witness ==
    /\ jpc = "RANKED"
    /\ Len(rank_arg) = 3
    /\ rank_arg[1] = J6
    /\ rank_arg[2] = J4
    /\ rank_arg[3] = J1
    /\ ranked[3].relevance_score = 0
    /\ ranked[3].title = J6.title

\* the number of concepts of the table with a word in the text
ConceptsIn(text) ==
    Cardinality({c \in DOMAIN synonyms :
        \E w \in DOMAIN synonyms[c].words : Contains(synonyms[c].words[w], text)})

(* C12: relevance_score is 10 for every distinct profile skill that is a     *)
(* substring of the lowercased title and description, plus 5 for every       *)
(* concept with at least one synonym in that text, plus 15 for every profile *)
(* job title that is a case-insensitive substring of the posting's title;    *)
(* nothing is normalised or capped                                           *)
C12_ScoreIsAdditive ==
    jpc = "RANKED" =>
       \A i \in 1..Len(ranked) :
          LET text == lower(ranked[i].title \o <<" ">> \o ranked[i].description)
          IN  ranked[i].relevance_score
              = 10 * Cardinality({s \in profile.skills : Contains(s, text)})
                + 5 * ConceptsIn(text)
                + 15 * Cardinality({t \in DOMAIN profile.job_titles :
                          Contains(lower(profile.job_titles[t]),
                                   lower(ranked[i].title))})

\* "Backend Python Developer using Docker and Kubernetes": two skills, two
\* concepts (docker through two of its synonyms), no title: 20 + 10
C12_Witness ==
    /\ jpc = "RANKED"
    /\ profile = ProfileA
    /\ Len(ranked) = 2
    /\ ranked[1].title = J1.title
    /\ ranked[1].company = J1.company
    /\ ranked[1].relevance_score = 50
    /\ ranked[2].title = J7.title
    /\ ranked[2].relevance_score = 30

(* C13: matched_skills is the union of the profile skills matched exactly    *)
(* and the concept keys (not the synonyms found) of the groups that matched; *)
(* for skills {python, docker} and the text "Backend Python Developer using  *)
(* Docker and Kubernetes" it holds python and docker and the score is >= 15  *)
C13_MatchedSkills ==
    jpc = "RANKED" =>
       \A i \in 1..Len(ranked) :
          LET text == lower(ranked[i].title \o <<" ">> \o ranked[i].description)
          IN  /\ ranked[i].matched_skills
                 = {s \in profile.skills : Contains(s, text)}
                   \cup {synonyms[c].key : c \in {c \in DOMAIN synonyms :
                           \E w \in DOMAIN synonyms[c].words :
                               Contains(synonyms[c].words[w], text)}}
              /\ (profile = ProfileA /\ ranked[i].title = J7.title) =>
                    /\ {synonyms[1].key, synonyms[2].key} \subseteq ranked[i].matched_skills
                    /\ synonyms[2].words[3] \notin ranked[i].matched_skills
                    /\ ranked[i].relevance_score >= 15

\* "html email" matches the concepts "machine learning" and "ai" through the
\* substrings "ml" and "ai", for a profile without skills
C13_Witness ==
    /\ jpc = "RANKED"
    /\ profile = ProfileB
    /\ Len(ranked) = 1
    /\ ranked[1].title = J4.title
    /\ ranked[1].matched_skills = {synonyms[3].key, synonyms[4].key}

\* the age of the cache entry a load found, in hours
LoadAge == lastLoad.at - saved.at

(* C14: a load_jobs_cache(maxAgeHours) that follows save_jobs_cache(J)       *)
(* returns J field for field exactly when now - storedTimestamp is at most   *)
(* maxAgeHours, the boundary included, and returns the empty list once the   *)
(* age exceeds maxAgeHours                                                   *)
C14_RoundTripWithinWindow ==
    (saved.called /\ lastLoad.called) =>
        /\ lastLoad.outcome = "returned"
        /\ LoadAge <= lastLoad.max_age_hours => lastLoad.jobs = saved.jobs
        /\ LoadAge > lastLoad.max_age_hours => lastLoad.jobs = <<>>

\* two postings saved, loaded with max_age_hours = 24 exactly 24 hours later
C14_Witness ==
    /\ saved.called
    /\ lastLoad.called
    /\ lastLoad.max_age_hours = 24
    /\ LoadAge = 24
    /\ Len(saved.jobs) = 2
    /\ lastLoad.jobs = saved.jobs

(* C15: load_jobs_cache never raises; when the cache file is missing, or is  *)
(* present but empty, truncated, not valid JSON, or lacks the timestamp or   *)
(* the jobs field, it returns the empty list                                 *)
C15_LoadNeverRaises ==
    lastLoad.called =>
        /\ lastLoad.outcome = "returned"
        /\ ~saved.called => lastLoad.jobs = <<>>

(* C16: the cache is a single slot; after any sequence of saves the entry    *)
(* holds only the jobs and the timestamp of the most recent save, and a      *)
(* fresh load returns exactly that list                                      *)
C16_SingleSlot ==
    saved.called =>
        /\ cacheFile.kind = "json"
        /\ DOMAIN cacheFile.members = {"timestamp", "jobs"}
        /\ fromisoformat(cacheFile.members.timestamp) = saved.at
        /\ Len(cacheFile.members.jobs) = Len(saved.jobs)
        /\ \A i \in 1..Len(saved.jobs) :
              load_object(cacheFile.members.jobs[i]) = saved.jobs[i]
        /\ (lastLoad.called /\ ~stale(lastLoad.at, saved.at, lastLoad.max_age_hours)) =>
              /\ Len(lastLoad.jobs) = Len(saved.jobs)
              /\ \A i \in 1..Len(lastLoad.jobs) : lastLoad.jobs[i] = saved.jobs[i]

\* two postings were saved, then one: the entry and a load an hour later
\* hold the one
C16_Witness ==
    /\ saved.called
    /\ Len(saved.before) = 2
    /\ Len(saved.jobs) = 1
    /\ Len(cacheFile.members.jobs) = 1
    /\ lastLoad.called
    /\ lastLoad.at = saved.at + 1
    /\ Len(lastLoad.jobs) = 1
    /\ lastLoad.jobs[1].title = J7.title

\* the adapters that made a request
Requested == {netCalls[i].adapter : i \in 1..Len(netCalls)}

(* C17: no adapter raises past its boundary; on a transport failure or a     *)
(* malformed or unexpected payload it returns the empty list, so that the    *)
(* failure of one adapter never keeps the results of the others from being   *)
(* aggregated                                                                *)
C17_AdaptersContainFailures ==
    /\ lastCall.adapter # "none" =>
          /\ lastCall.outcome = "returned"
          /\ (lastCall.network /\ ~lastCall.well_formed) => lastCall.jobs = <<>>
          /\ all_jobs = lastCall.before \o lastCall.jobs
    /\ jpc # "RAISED"

(* C18: an adapter that lacks a credential it needs (JSearch: RAPIDAPI_KEY;  *)
(* Adzuna: ADZUNA_APP_ID and ADZUNA_API_KEY) returns the empty list without  *)
(* making a request, and reports no error                                    *)
C18_NoCredentialNoCall ==
    /\ ~Truthy(env.RAPIDAPI_KEY) =>
          /\ "jsearch" \notin Requested
          /\ lastCall.adapter = "jsearch" =>
                /\ lastCall.outcome = "returned"
                /\ lastCall.jobs = <<>>
                /\ lastCall.printed # "error"
    /\ (~Truthy(env.ADZUNA_APP_ID) \/ ~Truthy(env.ADZUNA_API_KEY)) =>
          /\ "adzuna" \notin Requested
          /\ lastCall.adapter = "adzuna" =>
                /\ lastCall.outcome = "returned"
                /\ lastCall.jobs = <<>>
                /\ lastCall.printed # "error"

\* Adzuna with its application id but an empty key, called after RemoteOK
\* made its request
C18_Witness ==
    /\ Truthy(env.ADZUNA_APP_ID)
    /\ env.ADZUNA_API_KEY = ""
    /\ lastCall.adapter = "adzuna"
    /\ lastCall.jobs = <<>>
    /\ ~lastCall.network
    /\ "remoteok" \in Requested
    /\ jpc = "FETCHED"

\* the groups of lines 85-90 one of whose keywords is in the lowercased title
\* of some project
GroupsMatched ==
    {g \in DOMAIN TitleGroups :
        \E i \in 1..Len(py_get(user_data, "projects", <<>>)) :
           \E x \in TitleGroups[g].keywords :
              Contains(x, lower(py_get(user_data.projects[i], "title", <<>>)))}

(* C19: the job_titles of the profile extract_user_profile returns is never  *)
(* empty: it is the union of the title sets of the keyword groups matched by *)
(* some project title, and the fallback {Software Engineer, AI Engineer}     *)
(* when no project title matches a group or there are no projects            *)
C19_JobTitlesNeverEmpty ==
    (extracted.called /\ extracted.outcome = "returned") =>
        /\ extracted.profile.job_titles # {}
        /\ GroupsMatched # {} =>
              extracted.profile.job_titles
              = UNION {TitleGroups[g].titles : g \in GroupsMatched}
        /\ GroupsMatched = {} =>
              extracted.profile.job_titles = FallbackTitles

\* "Web Shop" and "Resume RAG Bot": the second and the third group
C19_Witness ==
    /\ extracted.called
    /\ extracted.outcome = "returned"
    /\ "projects" \in DOMAIN user_data
    /\ Len(user_data.projects) = 2
    /\ GroupsMatched = {2, 3}
    /\ Cardinality(extracted.profile.job_titles) = 4

(* C20: extract_user_profile never fails: for every candidate data, absent   *)
(* fields, empty lists and non-string values inside skill lists or           *)
(* experience bullets included, it returns a profile in which absent fields  *)
(* take their defaults, and it changes nothing but its return value          *)
C20_ExtractNeverFails ==
    extracted.called =>
        /\ extracted.outcome = "returned"
        /\ "experience" \notin DOMAIN user_data =>
              extracted.profile.experience_years = 0
        /\ "education" \notin DOMAIN user_data =>
              extracted.profile.education_level = ""
        /\ extracted.profile.preferred_locations = <<"Remote", "India">>

(* C21: whatever the adapters deliver (results, transport failure, parse     *)
(* failure, missing credentials), get_recommended_jobs goes through fetch,   *)
(* dedupe, rank and cache save and returns a list without raising            *)
C21_RecommendNeverRaises ==
    jpc # "RAISED"

\* the cache file holds an entry that load_jobs_cache(24) finds fresh
HeldFresh ==
    /\ cacheFile.kind = "json"
    /\ DOMAIN cacheFile.members = {"timestamp", "jobs"}
    /\ clock - fromisoformat(cacheFile.members.timestamp) <= 24

\* the handler has read the cache and nothing was saved since
AfterLoad == jpc \in {"SERVED", "ERROR", "FETCH"}

\* the postings of the cache entry
CachedJobs ==
    [i \in 1..Len(cacheFile.members.jobs) |-> load_object(cacheFile.members.jobs[i])]

\* C22 as stated: every fresh entry is served and keeps the adapters idle
C22_Original ==
    /\ (AfterLoad /\ HeldFresh) =>
          /\ jpc = "SERVED"
          /\ recommended = CachedJobs
          /\ lastCall.adapter = "none"
    /\ jpc = "FETCH" => ~HeldFresh

(* C22: on a fetch request a fresh cache entry (at most 24 hours old) whose  *)
(* job list is not empty is served and no adapter is called; the adapters    *)
(* are called only when the cache is missing, stale, or holds an empty list  *)
C22_FreshNonEmptyServed ==
    /\ (AfterLoad /\ HeldFresh /\ cacheFile.members.jobs # <<>>) =>
          /\ jpc = "SERVED"
          /\ recommended = CachedJobs
          /\ lastCall.adapter = "none"
          /\ netCalls = <<>>
    /\ jpc = "FETCH" => (~HeldFresh \/ cacheFile.members.jobs = <<>>)

\* an entry of two postings, exactly 24 hours old, is served
C22_Witness ==
    /\ jpc = "SERVED"
    /\ clock = 24
    /\ ~saved.called
    /\ Len(recommended) = 2
    /\ lastCall.adapter = "none"

\* the position of a request in the loop: title index, then adapter
LoopIndex(call) ==
    LET t == CHOOSE i \in 1..Len(profile.job_titles) :
                 profile.job_titles[i] = call.keyword
        a == CASE call.adapter = "jsearch" -> 1
               [] call.adapter = "remoteok" -> 2
               [] OTHER -> 3
    IN  3 * t + a

(* C28: after any sequence of get_recommended_jobs calls the cache entry is  *)
(* sorted descending by relevance_score, has at most max_results postings    *)
(* and no two with the same (lowercased title, lowercased company), and is   *)
(* the list the last call returned to its caller; searches go to at most     *)
(* the first three titles, each through JSearch, RemoteOK, Adzuna in order   *)
C28_CacheHoldsWhatWasReturned ==
    /\ saved.called =>
          /\ Len(CachedJobs) <= max_results
          /\ \A i, j \in 1..Len(CachedJobs) :
                i < j =>
                   /\ CachedJobs[i].relevance_score >= CachedJobs[j].relevance_score
                   /\ DedupeKey(CachedJobs[i]) # DedupeKey(CachedJobs[j])
    /\ jpc = "RAISED" => (saved.called /\ recommended = saved.jobs)
    /\ \A i \in 1..Len(netCalls) :
          /\ \E t \in 1..3 :
                /\ t <= Len(profile.job_titles)
                /\ netCalls[i].keyword = profile.job_titles[t]
          /\ i > 1 => LoopIndex(netCalls[i - 1]) < LoopIndex(netCalls[i])

----------------------------------------------------------------------------
(* Two invocations of agentic_rag_pipeline, one after the other or           *)
(* interleaved.  Everything the function assigns is a local of its frame     *)
(* (lines 128-143); the index files are shared and only read.  One           *)
(* invocation runs at a time; `other` holds the frame of the suspended one.  *)

Locals ==
    [pc |-> pc, query |-> query, source |-> source, answer |-> answer,
     passed |-> passed, feedback |-> feedback, llmCalls |-> llmCalls,
     searches |-> searches, trace |-> trace, returned |-> returned]

\* a scheduler that leaves `answer` where it is: one slot for both frames
Switch_shared_answer ==
    /\ other.pc # "IDLE"
    /\ running' = 3 - running
    /\ other' = Locals
    /\ pc' = other.pc
    /\ query' = other.query
    /\ source' = other.source
    /\ answer' = answer
    /\ passed' = other.passed
    /\ feedback' = other.feedback
    /\ llmCalls' = other.llmCalls
    /\ searches' = other.searches
    /\ trace' = other.trace
    /\ returned' = other.returned
    /\ UNCHANGED <<storage, docs, savers, applier>>
    /\ UNCHANGED <<jobVars, cacheVars, fetchVars, extractVars, handlerVars>>

\* the running invocation is suspended and the other one resumed
Switch ==
    /\ other.pc # "IDLE"
    /\ running' = 3 - running
    /\ other' = Locals
    /\ pc' = other.pc
    /\ query' = other.query
    /\ source' = other.source
    /\ answer' = other.answer
    /\ passed' = other.passed
    /\ feedback' = other.feedback
    /\ llmCalls' = other.llmCalls
    /\ searches' = other.searches
    /\ trace' = other.trace
    /\ returned' = other.returned
    /\ UNCHANGED <<storage, docs, savers, applier>>
    /\ UNCHANGED <<jobVars, cacheVars, fetchVars, extractVars, handlerVars>>

PairRouterTexts == {W_resume, W_project}

PairGraderTexts ==
    { <<LB, K_grade, S_pass, RB>>,
      <<LB, K_grade, S_fail, COMMA, K_feedback, S_text, RB>> }

InitPair ==
    /\ pc = "ROUTE"
    /\ query \in Queries
    /\ storage \in SUBSET IndexPaths
    /\ docs = [p \in IndexPaths |-> IF p = ResumePath THEN 1 ELSE MaxDocs]
    /\ source = Absent
    /\ answer = Absent
    /\ passed = FALSE
    /\ feedback = Absent
    /\ llmCalls = <<>>
    /\ searches = <<>>
    /\ trace = <<>>
    /\ returned = NotReturned
    /\ running = 1
    /\ \E q \in Queries : other = [IdleLocals EXCEPT !.pc = "ROUTE", !.query = q]
    /\ savers = IdleSavers
    /\ applier = IdleApplier
    /\ JobsIdle
    /\ CacheIdle /\ FetchIdle /\ ExtractIdle /\ HandlerIdle

NextPair ==
    \/ Route(PairRouterTexts)
    \/ retrieve_answer
    \/ Grade(PairGraderTexts)
    \/ Correct
    \/ Return
    \/ Switch

SpecPair == InitPair /\ [][NextPair]_vars

\* the calls of one role in a frame
FrameCalls(f, r) == SelectSeq(f.llmCalls, LAMBDA c : c.role = r)

\* what lines 132-143 compute from a query, the index files and the
\* responses the frame's own calls received
AnswerOf(f) ==
    LET src == route_decision(FrameCalls(f, "route")[1].resp)
        dbs == LoadedDbs(src, storage)
        gen == IF dbs = <<>> THEN NoEmbeddings
               ELSE FrameCalls(f, "generate")[1].resp
    IN  IF grade_verdict(FrameCalls(f, "grade")[1].resp)[1]
        THEN gen
        ELSE FrameCalls(f, "correct")[1].resp

\* a frame holds nothing but what its own query and its own calls produced
OwnFrame(f) ==
    /\ \A i \in 1..Len(f.llmCalls) :
          f.llmCalls[i].prompt.query \in {f.query, Absent}
    /\ f.pc \notin {"ROUTE"} =>
          f.source = route_decision(FrameCalls(f, "route")[1].resp)
    /\ Len(FrameCalls(f, "grade")) = 1 =>
          FrameCalls(f, "grade")[1].prompt.answer =
             (IF LoadedDbs(f.source, storage) = <<>> THEN NoEmbeddings
              ELSE FrameCalls(f, "generate")[1].resp)
    /\ Len(FrameCalls(f, "correct")) = 1 =>
          FrameCalls(f, "correct")[1].prompt.feedback =
             grade_verdict(FrameCalls(f, "grade")[1].resp)[2]
    /\ f.searches = (IF f.pc \in {"ROUTE", "RETRIEVE"} THEN <<>>
                     ELSE SearchesMade(LoadedDbs(f.source, storage)))
    /\ f.pc = "DONE" => f.returned = AnswerOf(f)
    /\ f.pc # "DONE" => f.returned = NotReturned

(* C23: two invocations of agentic_rag_pipeline, run one after the other or  *)
(* interleaved at any step, keep nothing in common: what each one holds and  *)
(* returns is determined by its own query, the stored indices and the        *)
(* responses to its own LLM calls                                            *)
C23_InvocationsIndependent ==
    OwnFrame(Locals) /\ OwnFrame(other)

\* one invocation ran from start to end while the other was suspended
\* before its corrective call, and the two hold different answers
C23_Witness ==
    /\ pc = "DONE"
    /\ other.pc = "CORRECT"
    /\ query # other.query
    /\ returned # other.answer
    /\ other.answer # NoEmbeddings

----------------------------------------------------------------------------
(* agentic_rag_pipeline with every call returning: a step that can be taken  *)
(* is taken                                                                  *)
SpecLive == Init /\ [][Next]_vars /\ WF_vars(Next)

(* C24: when every LLM call and index lookup returns, every invocation       *)
(* returns, after at most four LLM calls (route, generate, grade, correct),  *)
(* of which at most one is a grading and at most one a corrective call       *)
C24_ReturnsWithinFourCalls ==
    /\ [](/\ Len(llmCalls) <= 4
          /\ Len(CallsOf("route")) <= 1
          /\ Len(CallsOf("generate")) <= 1
          /\ Len(CallsOf("grade")) <= 1
          /\ Len(CallsOf("correct")) <= 1)
    /\ <>[](pc = "DONE" /\ returned # NotReturned)

\* an invocation that returned after all four calls
C24_Witness ==
    /\ pc = "DONE"
    /\ returned # NotReturned
    /\ Len(llmCalls) = 4
    /\ llmCalls[4].role = "correct"

\* the first brace-delimited block of a text, read as a JSON value from its
\* first "{" on
FirstBlock(text) ==
    LET opens == {i \in 1..Len(text) : text[i] = LB}
    IN  IF opens = {} THEN ParseFail
        ELSE ParseValue(text, CHOOSE i \in opens : \A k \in opens : i <= k)

(* C25: the verdict is pass exactly when the first brace-delimited block of  *)
(* the grader's text is a JSON object whose grade is "pass", whatever text   *)
(* or further brace blocks follow it; in every other case it is fail         *)
C25_FirstBlockDecides ==
    Graded =>
       (passed <=> (/\ FirstBlock(GraderText).ok
                    /\ dict_get(FirstBlock(GraderText).obj, "grade", "fail") = "pass"))

\* the values of a list
Values(seq) == {seq[i] : i \in 1..Len(seq)}

\* the values the skills are collected from
SkillSources(d) ==
    LET ps == py_get(d, "projects", <<>>)
        xs == py_get(d, "experience", <<>>)
    IN  Values(py_get(d, "languages", <<>>))
        \cup Values(py_get(d, "tools", <<>>))
        \cup Values(py_get(d, "coursework", <<>>))
        \cup UNION {Values(py_get(ps[i], "technologies", <<>>)) : i \in 1..Len(ps)}
        \cup UNION {UNION {{w \in Values(split(b)) : Len(w) > 3} :
                             b \in Values(py_get(xs[i], "items", <<>>))} :
                    i \in 1..Len(xs)}

(* C26: the skills of a returned profile are lowercased strings, each once:  *)
(* the union of languages, tools and coursework, of each project's           *)
(* technologies and of the whitespace-separated words of more than three     *)
(* characters of each experience bullet, values that are not strings left    *)
(* out; experience_years is the number of experience entries                 *)
C26_SkillsAndYears ==
    (extracted.called /\ extracted.outcome = "returned") =>
        /\ extracted.profile.skills =
              {lower(v) : v \in {x \in SkillSources(user_data) : IsStr(x)}}
        /\ \A sk \in extracted.profile.skills : IsStr(sk) /\ sk = lower(sk)
        /\ extracted.profile.experience_years =
              Len(py_get(user_data, "experience", <<>>))

\* a bullet with words of three and of four characters, and a language list
\* holding a value that is not a string
C26_Witness ==
    /\ extracted.called
    /\ extracted.outcome = "returned"
    /\ "experience" \in DOMAIN user_data
    /\ user_data.experience = <<[items |-> <<CS_Bullet2>>]>>
    /\ "languages" \in DOMAIN user_data
    /\ PyInt \in Values(user_data.languages)
    /\ <<"j", "o", "b", "s">> \in extracted.profile.skills
    /\ <<"r", "a", "n">> \notin extracted.profile.skills
    /\ <<"p", "y", "t", "h", "o", "n">> \in extracted.profile.skills
    /\ extracted.profile.experience_years = 1

----------------------------------------------------------------------------
(* embedding_service.py: the indices are written, then a question is put *)

\* lines 8-10, 17 and 28: os.path.join of the directory and the file name
SavedResumePath == "data/embeddings/resume/resume_index.faiss"
SavedProjectPath == "data/embeddings/projects/projects_index.faiss"

\* lines 14-19: index.save_local(path) creates what is at `path`
embed_resume_text ==
    /\ pc = "ROUTE"
    /\ SavedResumePath \notin storage
    /\ storage' = storage \cup {SavedResumePath}
    /\ UNCHANGED <<pc, query, docs, source, answer, passed, feedback, llmCalls,
                   searches, trace, returned>>
    /\ UNCHANGED <<jobVars, sideVars>>

\* lines 21-30
embed_project_summaries ==
    /\ pc = "ROUTE"
    /\ SavedProjectPath \notin storage
    /\ storage' = storage \cup {SavedProjectPath}
    /\ UNCHANGED <<pc, query, docs, source, answer, passed, feedback, llmCalls,
                   searches, trace, returned>>
    /\ UNCHANGED <<jobVars, sideVars>>

\* nothing is stored yet
InitEmbed ==
    /\ pc = "ROUTE"
    /\ query \in Queries
    /\ storage = {}
    /\ docs \in [IndexPaths -> {1, MaxDocs}]
    /\ source = Absent
    /\ answer = Absent
    /\ passed = FALSE
    /\ feedback = Absent
    /\ llmCalls = <<>>
    /\ searches = <<>>
    /\ trace = <<>>
    /\ returned = NotReturned
    /\ JobsIdle
    /\ SideIdle

NextEmbed ==
    \/ embed_resume_text
    \/ embed_project_summaries
    \/ Route(RouterSamples)
    \/ retrieve_answer
    \/ Grade(PairGraderTexts)
    \/ Correct
    \/ Return

SpecEmbed == InitEmbed /\ [][NextEmbed]_vars

(* C27: once embed_resume_text (embed_project_summaries) has stored its      *)
(* index, a question routed to "resume" ("project") finds that index at the  *)
(* path retrieve_answer checks: the index is searched and an answer is       *)
(* generated, the no-embeddings sentinel is not returned                     *)
C27_StoredIndexIsFound ==
    (/\ pc \in {"GRADE", "CORRECT", "RETURN", "DONE"}
     /\ \/ source = "resume" /\ SavedResumePath \in storage
        \/ source = "project" /\ SavedProjectPath \in storage)
    => /\ searches # <<>>
       /\ Len(CallsOf("generate")) = 1
       /\ CallsOf("generate")[1].resp # NoEmbeddings

----------------------------------------------------------------------------
(* save_jobs_cache called concurrently.  Each call builds its document       *)
(* (lines 289-292), opens the file with mode "w", which empties it (line     *)
(* 294), and json.dump's text reaches the file from offset 0 of the call's   *)
(* own file object when the `with` block closes it (line 295).  A write      *)
(* replaces the bytes it covers and leaves what lies behind them.            *)

Savers == {1, 2}

\* the text json.dump produces, in parts: the opening with the timestamp,
\* one part per posting, the closing
Document(call) ==
    <<[by |-> call.id, part |-> "head", n |-> 0]>>
    \o [i \in 1..Len(call.jobs) |-> [by |-> call.id, part |-> "job", n |-> i]]
    \o <<[by |-> call.id, part |-> "tail", n |-> 0]>>

\* write(text) at offset 0 of a file holding `bytes`
WriteAtStart(bytes, text) ==
    text \o SubSeq(bytes, Len(text) + 1, Len(bytes))

\* what json.load makes of the bytes
file_of(bytes, calls) ==
    IF bytes = <<>> THEN EmptyFile
    ELSE IF \E c \in 1..Len(calls) : bytes = Document(calls[c])
         THEN LET c == CHOOSE c \in 1..Len(calls) : bytes = Document(calls[c])
              IN  cache_document(calls[c].at, calls[c].jobs)
    ELSE IF \E c \in 1..Len(calls) :
               /\ Len(bytes) < Len(Document(calls[c]))
               /\ bytes = SubSeq(Document(calls[c]), 1, Len(bytes))
         THEN TruncatedFile
    ELSE NotJsonFile

\* lines 289-294: the document is built and the file opened for writing
save_open ==
    \E id \in Savers, jobs \in SaveLists :
        /\ \A c \in 1..Len(savers.calls) : savers.calls[c].id # id
        /\ LET call == [id |-> id, at |-> clock, jobs |-> jobs, open |-> TRUE]
               calls == Append(savers.calls, call)
           IN  /\ savers' = [disk |-> <<>>, calls |-> calls]
               /\ cacheFile' = file_of(<<>>, calls)
        /\ UNCHANGED <<clock, saved, lastLoad>>
        /\ UNCHANGED <<ragVars, jobVars, fetchVars, extractVars, handlerVars>>
        /\ UNCHANGED <<running, other, applier>>

\* line 295 and the end of the `with` block
save_close ==
    \E c \in 1..Len(savers.calls) :
        /\ savers.calls[c].open
        /\ LET calls == [savers.calls EXCEPT ![c].open = FALSE]
               bytes == WriteAtStart(savers.disk, Document(savers.calls[c]))
           IN  /\ savers' = [disk |-> bytes, calls |-> calls]
               /\ cacheFile' = file_of(bytes, calls)
        /\ saved' = [called |-> TRUE, at |-> savers.calls[c].at,
                     jobs |-> savers.calls[c].jobs, before |-> saved.jobs]
        /\ UNCHANGED <<clock, lastLoad>>
        /\ UNCHANGED <<ragVars, jobVars, fetchVars, extractVars, handlerVars>>
        /\ UNCHANGED <<running, other, applier>>

\* an entry saved earlier, by a call that is over
EarlierSave ==
    [id |-> 0, at |-> MaxClock - 2, open |-> FALSE,
     jobs |-> sorted_by_score_desc(score_all(<<J7>>, ProfileA))]

InitSavers ==
    /\ RagIdle
    /\ JobsIdle
    /\ FetchIdle
    /\ ExtractIdle
    /\ HandlerIdle
    /\ running = 1
    /\ other = IdleLocals
    /\ applier = IdleApplier
    /\ savers = [disk |-> Document(EarlierSave), calls |-> <<EarlierSave>>]
    /\ cacheFile = cache_document(EarlierSave.at, EarlierSave.jobs)
    /\ clock = MaxClock - 2
    /\ saved = NotSaved
    /\ lastLoad = NotLoaded

NextSavers ==
    \/ Tick
    \/ save_open
    \/ save_close
    \/ load_jobs_cache

SpecSavers == InitSavers /\ [][NextSavers]_vars

\* every save_jobs_cache call begun is over
AllSaved ==
    /\ Len(savers.calls) = 1 + Cardinality(Savers)
    /\ \A c \in 1..Len(savers.calls) : ~savers.calls[c].open

(* C29: however concurrent save_jobs_cache calls and load_jobs_cache         *)
(* interleave, once all saves are over the cache holds the timestamp and     *)
(* the postings of one of them, never a mixture, and a load overlapping a    *)
(* save returns a complete sequence saved earlier, the complete new one, or  *)
(* the empty list: it never raises and never returns part of an entry        *)
C29_SavesDoNotMix ==
    /\ AllSaved =>
          \E c \in 2..Len(savers.calls) :
              cacheFile = cache_document(savers.calls[c].at, savers.calls[c].jobs)
    /\ lastLoad.called =>
          /\ lastLoad.outcome = "returned"
          /\ \/ lastLoad.jobs = <<>>
             \/ \E c \in 1..Len(savers.calls) : lastLoad.jobs = savers.calls[c].jobs

----------------------------------------------------------------------------
(* job_application_service.py: apply_to_jobs *)

MaxApplyJobs == 3

W_linkedin_com == <<"l", "i", "n", "k", "e", "d", "i", "n", ".", "c", "o", "m">>
LinkedInLink == W_linkedin_com \o <<"/", "1">>
FormLink == <<"j", "o", "b", "s", ".", "e", "x", "/", "2">>

\* the postings handed over: a LinkedIn link, another link, an empty link,
\* no link at all, a link that is not a string
ApplyJobPool ==
    { [title |-> "ML Engineer", company |-> "Acme", apply_link |-> LinkedInLink],
      [title |-> "Data Engineer", company |-> "Initech", apply_link |-> FormLink],
      [title |-> "QA Engineer", company |-> "Globex", apply_link |-> <<>>],
      [title |-> "Web Developer", company |-> "Umbrella"],
      [title |-> "Analyst", company |-> "Hooli", apply_link |-> PyInt] }

ApplyJobLists == UNION {[1..n -> ApplyJobPool] : n \in 0..MaxApplyJobs}

\* the file at applications_log_path before the call
NoLog == [kind |-> "missing"]
BrokenLog == [kind |-> "not_json"]
LogOf(applications) == [kind |-> "json", applications |-> applications]
OldEntry ==
    [job_title |-> "Clerk", company |-> "Vandelay", url |-> FormLink,
     status |-> "success"]
InitialLogs == {NoLog, BrokenLog, LogOf(<<>>), LogOf(<<OldEntry>>)}

\* bool(job_url) of line 212
HasLink(url) == url # <<>> /\ url # PyNone

\* lines 225-228 and 230-241: what one application can come to.  The two
\* apply methods catch every Exception and return a bool; the test
\* "linkedin.com" in job_url raises for a link that is not a string
AttemptStatuses(url) ==
    IF IsStr(url) THEN {"success", "partial"} ELSE {"error"}

\* lines 197-205: the driver is started; the login is tried when both
\* credentials are given
apply_start ==
    /\ applier.pc = "CALLED"
    /\ \E ok \in (IF applier.credentials THEN BOOLEAN ELSE {FALSE}) :
          applier' = [applier EXCEPT !.pc = "LOOP", !.driver = "open",
                                     !.linkedin_logged_in = ok]
    /\ UNCHANGED <<ragVars, jobVars, cacheVars, fetchVars, extractVars, handlerVars>>
    /\ UNCHANGED <<running, other, savers>>

\* apply_job testing the count after the application instead of before
apply_job_unbounded ==
    /\ applier.pc = "LOOP"
    /\ IF applier.i > Len(applier.jobs)
       THEN applier' = [applier EXCEPT !.pc = "CLOSE"]
       ELSE LET job == applier.jobs[applier.i]
                job_url == py_get(job, "apply_link", <<>>)
            IN  IF ~HasLink(job_url)
                THEN applier' = [applier EXCEPT !.i = @ + 1]
                ELSE \E status \in AttemptStatuses(job_url) :
                        applier' =
                           [applier EXCEPT
                              !.i = @ + 1,
                              !.applied_count =
                                 IF status = "success" THEN @ + 1 ELSE @,
                              !.results =
                                 Append(@, [job_title |-> py_get(job, "title", ""),
                                            company |-> py_get(job, "company", ""),
                                            url |-> job_url,
                                            status |-> status])]
    /\ UNCHANGED <<ragVars, jobVars, cacheVars, fetchVars, extractVars, handlerVars>>
    /\ UNCHANGED <<running, other, savers>>

\* lines 207-244: one turn of the loop
apply_job ==
    /\ applier.pc = "LOOP"
    /\ IF applier.i > Len(applier.jobs)
          \/ applier.applied_count >= applier.max_applications
       THEN applier' = [applier EXCEPT !.pc = "CLOSE"]
       ELSE LET job == applier.jobs[applier.i]
                job_url == py_get(job, "apply_link", <<>>)
            IN  IF ~HasLink(job_url)
                THEN applier' = [applier EXCEPT !.i = @ + 1]
                ELSE \E status \in AttemptStatuses(job_url) :
                        applier' =
                           [applier EXCEPT
                              !.i = @ + 1,
                              !.applied_count =
                                 IF status = "success" THEN @ + 1 ELSE @,
                              !.results =
                                 Append(@, [job_title |-> py_get(job, "title", ""),
                                            company |-> py_get(job, "company", ""),
                                            url |-> job_url,
                                            status |-> status])]
    /\ UNCHANGED <<ragVars, jobVars, cacheVars, fetchVars, extractVars, handlerVars>>
    /\ UNCHANGED <<running, other, savers>>

\* lines 40-44 and 246
close_driver ==
    /\ applier.pc = "CLOSE"
    /\ applier' = [applier EXCEPT
                      !.pc = "SAVE",
                      !.driver = IF @ = "open" THEN "none" ELSE @]
    /\ UNCHANGED <<ragVars, jobVars, cacheVars, fetchVars, extractVars, handlerVars>>
    /\ UNCHANGED <<running, other, savers>>

\* lines 253-269 and 251: the log is read, extended and written, and the
\* results are returned; json.load of a file that is not JSON raises
save_application_log ==
    /\ applier.pc = "SAVE"
    /\ applier' =
          IF applier.log.kind = "not_json"
          THEN [applier EXCEPT !.pc = "RAISED"]
          ELSE LET log_data == IF applier.log.kind = "missing" THEN <<>>
                               ELSE applier.log.applications
               IN  [applier EXCEPT !.pc = "RETURNED",
                                   !.log = LogOf(log_data \o applier.results),
                                   !.returned = applier.results]
    /\ UNCHANGED <<ragVars, jobVars, cacheVars, fetchVars, extractVars, handlerVars>>
    /\ UNCHANGED <<running, other, savers>>

InitApply ==
    /\ RagIdle
    /\ JobsIdle
    /\ CacheIdle /\ FetchIdle /\ ExtractIdle /\ HandlerIdle
    /\ running = 1
    /\ other = IdleLocals
    /\ savers = IdleSavers
    /\ \E jobs \in ApplyJobLists, max \in {1, 2}, cred \in BOOLEAN,
          log \in InitialLogs :
          applier = [pc |-> "CALLED", jobs |-> jobs, max_applications |-> max,
                     credentials |-> cred, linkedin_logged_in |-> FALSE,
                     driver |-> "none", i |-> 1, applied_count |-> 0,
                     results |-> <<>>, returned |-> <<>>,
                     log |-> log, log_before |-> log]

NextApply ==
    \/ apply_start
    \/ apply_job
    \/ close_driver
    \/ save_application_log

SpecApply == InitApply /\ [][NextApply]_vars

\* the number of successes among the first n results
Successes(results, n) ==
    Cardinality({k \in 1..n : results[k].status = "success"})

\* the postings with a link among the first n
WithLink(jobs, n) ==
    SelectSeq(SubSeq(jobs, 1, n), LAMBDA j : HasLink(py_get(j, "apply_link", <<>>)))

(* C30: in apply_to_jobs the successes never exceed max_applications and no  *)
(* posting is tried once that many have succeeded; a posting with an empty   *)
(* apply_link is passed over and gets no result; every result has status     *)
(* success, partial or error; on return the driver is closed and the         *)
(* application log is what it was before followed by this call's results in  *)
(* their order                                                               *)
C30_ApplyRespectsCap ==
    applier.pc # "IDLE" =>
       /\ Successes(applier.results, Len(applier.results)) <= applier.max_applications
       /\ \A k \in 1..Len(applier.results) :
             /\ Successes(applier.results, k - 1) < applier.max_applications
             /\ applier.results[k].status \in {"success", "partial", "error"}
             /\ HasLink(applier.results[k].url)
       /\ LET tried == WithLink(applier.jobs, applier.i - 1)
          IN  /\ Len(applier.results) = Len(tried)
              /\ \A k \in 1..Len(tried) :
                    applier.results[k].url = tried[k].apply_link
       /\ applier.pc = "RETURNED" =>
             /\ applier.driver = "none"
             /\ applier.returned = applier.results
             /\ applier.log.kind = "json"
             /\ applier.log.applications =
                   (IF applier.log_before.kind = "missing" THEN <<>>
                    ELSE applier.log_before.applications) \o applier.results

\* a posting without link passed over, the one application allowed made,
\* the third posting left untried, and the result added to an older log
C30_Witness ==
    /\ applier.pc = "RETURNED"
    /\ applier.max_applications = 1
    /\ Len(applier.jobs) = 3
    /\ py_get(applier.jobs[1], "apply_link", <<>>) = <<>>
    /\ applier.i = 3
    /\ HasLink(py_get(applier.jobs[3], "apply_link", <<>>))
    /\ Len(applier.results) = 1
    /\ applier.results[1].status = "success"
    /\ applier.log_before = LogOf(<<OldEntry>>)
    /\ Len(applier.log.applications) = 2

====
